---- MODULE Spec2Model ----
(***************************************************************************)
(* Model of extract_metrics.py (ZenML Unwrapped workspace extraction):     *)
(* the normalisers, the aggregation stages and the award rules.            *)
(*                                                                         *)
(* Conventions                                                             *)
(*   - Python None for a string-valued field is the string None below; a   *)
(*     missing datetime is the record NoDt; a missing nested object is the *)
(*     record NoPipeline.                                                  *)
(*   - A float that the code rounds to one decimal (success_rate,          *)
(*     avg_hour) is held as an integer number of tenths: 667 is 66.7.      *)
(*   - A Counter / dict is a sequence of [key, count] records in insertion *)
(*     order, which is the order Python iterates it in.                    *)
(***************************************************************************)
EXTENDS Integers, Sequences, FiniteSets, TLC

VARIABLES
    year,            \* target year (run_extraction's argument)
    runs,            \* the run list handed to an aggregation stage
    users,           \* the user list handed to compute_user_stats
    pipelines,       \* the pipeline list the lookup maps are built from
    artifacts,       \* artifact list
    models,          \* model list
    core_stats,      \* result of compute_workspace_core_stats
    project_stats,   \* result of compute_project_stats
    time_analytics,  \* result of compute_time_analytics
    user_stats,      \* result of compute_user_stats / input of compute_awards
    projects,        \* project-stat list handed to compute_awards
    awards,          \* result of compute_awards
    top_pipelines,   \* result of compute_top_pipelines
    stacks,          \* stack list
    all_schedules,   \* schedule list
    all_services,    \* service list
    model,           \* the model record handed to get_model_version_count
    version_count,   \* result of get_model_version_count
    done,            \* names of the functions that have returned
    project_leaderboards, \* result of compute_project_leaderboards
    project_names,   \* project names handed to generate_anonymization_mapping
    pipeline_names,  \* pipeline names handed to generate_anonymization_mapping
    mapping,         \* result of generate_anonymization_mapping
    growth_months,   \* the runs_per_month list handed to calculate_mom_growth
    mom_growth,      \* result of calculate_mom_growth, in tenths of a percent
    remote_runs,     \* the runs of a project as the server lists them
    page_size,       \* the size of the pages the server answers with
    page_index,      \* index of the page fetch_runs_for_year holds
    requests,        \* number of list_pipeline_runs calls made so far
    fetched_runs,    \* fetch_runs_for_year's all_runs: accumulator, then result
    fetch_pc,        \* where fetch_runs_for_year is: "idle", "paging", "returned"
    remote_projects, \* the projects of the workspace as the server holds them
    project_index,   \* number of projects run_extraction's loop has handled
    project_data_list, \* run_extraction's list of processed projects
    failed_projects, \* run_extraction's list of (name, error) pairs
    skipped_projects \* run_extraction's list of projects without runs

vars == <<year, runs, users, pipelines, artifacts, models, core_stats,
          project_stats, time_analytics, user_stats, projects, awards,
          top_pipelines, stacks, all_schedules, all_services, model,
          version_count, done, project_leaderboards, project_names,
          pipeline_names, mapping, growth_months, mom_growth, remote_runs,
          page_size, page_index, requests, fetched_runs, fetch_pc,
          remote_projects, project_index, project_data_list, failed_projects,
          skipped_projects>>

\* The state of the project leaderboards, of the anonymization mapping and
\* of the month-over-month growth
rankingVars == <<project_leaderboards, project_names, pipeline_names, mapping,
                 growth_months, mom_growth>>

\* The state of fetch_runs_for_year
fetchVars == <<remote_runs, page_size, page_index, requests, fetched_runs, fetch_pc>>

\* The state of run_extraction's loop over the projects
loopVars == <<remote_projects, project_index, project_data_list,
              failed_projects, skipped_projects>>

----------------------------------------------------------------------------
(* Bounds of the model *)

MaxRuns == 4

MaxUserRuns == 3

MaxUsers == 3

MaxProjects == 3

MaxExtraRuns == 3

----------------------------------------------------------------------------
(* Generic helpers *)

None == "<none>"

RECURSIVE SeqsUpTo(_, _)
SeqsUpTo(S, n) ==
    IF n = 0 THEN {<<>>}
    ELSE LET shorter == SeqsUpTo(S, n - 1)
         IN  shorter \cup {Append(s, x) : s \in {t \in shorter : Len(t) = n - 1}, x \in S}

Get(map, k, default) == IF k \in DOMAIN map THEN map[k] ELSE default

\* Python's len([x for x in xs if P(x)])
CountIf(s, P(_)) == Cardinality({i \in 1..Len(s) : P(s[i])})

\* Python's [x for x in xs if P(x)]
SelectIdx(s, P(_)) == {i \in 1..Len(s) : P(s[i])}

EmptyMonths == [m \in 1..12 |-> 0]

RECURSIVE SumSeq(_)
SumSeq(s) == IF s = <<>> THEN 0 ELSE Head(s) + SumSeq(Tail(s))

\* round(a / b * 10**k) for b > 0, Python 3's round-half-to-even
RoundHalfEven(a, b) ==
    LET q == a \div b
        r == a % b
    IN  IF 2 * r < b THEN q
        ELSE IF 2 * r > b THEN q + 1
        ELSE IF q % 2 = 0 THEN q ELSE q + 1

\* str.lower() over the vocabulary of statuses and pipeline names in use
Lower(s) ==
    CASE s = "COMPLETED" -> "completed"
      [] s = "Failed"    -> "failed"
      [] s = "Unlisted"  -> "unlisted"
      [] s = "UNLISTED"  -> "unlisted"
      [] OTHER           -> s

----------------------------------------------------------------------------
(* Counter: [key, count] records in first-insertion order *)

CounterIndex(c, k) ==
    IF \E i \in 1..Len(c) : c[i].key = k
    THEN CHOOSE i \in 1..Len(c) : c[i].key = k
    ELSE 0

CounterGet(c, k) ==
    LET i == CounterIndex(c, k) IN IF i = 0 THEN 0 ELSE c[i].count

\* a counter that records a key once and never counts it again
CounterIncOnce(c, k) ==
    LET i == CounterIndex(c, k)
    IN  IF i = 0 THEN Append(c, [key |-> k, count |-> 1]) ELSE c

\* counter[k] += 1
CounterInc(c, k) ==
    LET i == CounterIndex(c, k)
    IN  IF i = 0 THEN Append(c, [key |-> k, count |-> 1])
        ELSE [c EXCEPT ![i].count = @ + 1]

\* Counter(keys): every element of the iterable is counted once
RECURSIVE CounterFrom(_, _)
CounterFrom(c, keys) ==
    IF keys = <<>> THEN c ELSE CounterFrom(CounterInc(c, Head(keys)), Tail(keys))

Counter(keys) == CounterFrom(<<>>, keys)

RECURSIVE CounterTotal(_)
CounterTotal(c) == IF c = <<>> THEN 0 ELSE Head(c).count + CounterTotal(Tail(c))

----------------------------------------------------------------------------
(* Datetimes *)

NoDt == [year |-> 0, month |-> 0, day |-> 0, hour |-> 0, aware |-> FALSE]

IsLeap(y) == (y % 4 = 0) /\ ((y % 100 # 0) \/ (y % 400 = 0))

DaysInMonth(y, m) ==
    IF m = 2 THEN (IF IsLeap(y) THEN 29 ELSE 28)
    ELSE IF m \in {4, 6, 9, 11} THEN 30 ELSE 31

RECURSIVE DaysBeforeMonth(_, _)
DaysBeforeMonth(y, m) ==
    IF m = 1 THEN 0 ELSE DaysBeforeMonth(y, m - 1) + DaysInMonth(y, m - 1)

ToOrdinal(dt) ==
    LET y == dt.year - 1
    IN  y * 365 + (y \div 4) - (y \div 100) + (y \div 400)
        + DaysBeforeMonth(dt.year, dt.month) + dt.day

\* datetime.weekday(): Monday is 0, Sunday is 6
Weekday(dt) == (ToOrdinal(dt) + 6) % 7

\* A raw created value: a datetime object, an ISO-8601 string (suffix "",
\* "Z" or "+00:00"), a string that is no ISO date, or None.
RawDatetime(dt) == [kind |-> "datetime", dt |-> dt, suffix |-> ""]
RawIso(dt, suffix) == [kind |-> "iso", dt |-> dt, suffix |-> suffix]
RawBad == [kind |-> "bad", dt |-> NoDt, suffix |-> ""]
RawNone == [kind |-> "none", dt |-> NoDt, suffix |-> ""]

parse_datetime(value) ==
    CASE value.kind = "datetime" -> value.dt
      [] value.kind = "none"     -> NoDt
      [] value.kind = "iso"      -> [value.dt EXCEPT !.aware = (value.suffix # "")]
      [] OTHER                   -> NoDt

is_target_year(dt, y) == dt # NoDt /\ dt.year = y

normalize_status(status) ==
    IF status = None THEN "unknown" ELSE Lower(status)

----------------------------------------------------------------------------
(* Runs, pipelines and the lookup maps *)

NoPipeline == [id |-> None, name |-> None]

\* dict[k] = v with last-write-wins, as a function
MapSet(map, k, v) == [x \in (DOMAIN map) \cup {k} |-> IF x = k THEN v ELSE map[x]]

EmptyMap == [x \in {} |-> None]

RECURSIVE BuildMaps(_, _)
BuildMaps(ps, acc) ==
    IF ps = <<>> THEN acc
    ELSE LET p == Head(ps)
         IN  BuildMaps(Tail(ps),
                 [name_by_id    |-> MapSet(acc.name_by_id, p.id, p.name),
                  id_by_name    |-> MapSet(acc.id_by_name, p.name, p.id),
                  project_by_id |-> IF p.project # None
                                    THEN MapSet(acc.project_by_id, p.id, p.project)
                                    ELSE acc.project_by_id])

build_pipeline_maps(ps) ==
    BuildMaps(ps, [name_by_id |-> EmptyMap, id_by_name |-> EmptyMap,
                   project_by_id |-> EmptyMap])

\* a variant that takes an unknown configured name for the pipeline id
get_pipeline_id_and_name_unknown_as_id(run, name_by_id, id_by_name) ==
    IF run.res_pipeline # NoPipeline
    THEN <<run.res_pipeline.id, run.res_pipeline.name>>
    ELSE IF run.config_name # None
         THEN LET pid == Get(id_by_name, run.config_name, None)
              IN  IF pid # None
                  THEN <<pid, Get(name_by_id, pid, run.config_name)>>
                  ELSE <<run.config_name, run.config_name>>
         ELSE <<None, None>>

\* returns <<pipeline_id, pipeline_name>>: the embedded pipeline first, then
\* run.config.name through id_by_name
get_pipeline_id_and_name(run, name_by_id, id_by_name) ==
    IF run.res_pipeline # NoPipeline
    THEN <<run.res_pipeline.id, run.res_pipeline.name>>
    ELSE IF run.config_name # None
         THEN LET pid == Get(id_by_name, run.config_name, None)
              IN  IF pid # None
                  THEN <<pid, Get(name_by_id, pid, run.config_name)>>
                  ELSE <<None, run.config_name>>
         ELSE <<None, None>>

get_user_id(run) ==
    IF run.user_id # None THEN run.user_id
    ELSE IF run.res_user # None THEN run.res_user
    ELSE None

----------------------------------------------------------------------------
(* Model version count *)

\* A raw attribute value: None, an int, a string of digits spelling n, the
\* empty string, or a string that spells no integer.
VNone == [tag |-> "none", n |-> 0]
VInt(n) == [tag |-> "int", n |-> n]
VDigits(n) == [tag |-> "digits", n |-> n]
VEmpty == [tag |-> "empty", n |-> 0]
VText == [tag |-> "text", n |-> 0]

\* int(value) succeeds on ints and digit strings, raises ValueError otherwise
IntOk(v) == v.tag \in {"int", "digits"}

\* bool(value)
Truthy(v) ==
    CASE v.tag = "none"  -> FALSE
      [] v.tag = "empty" -> FALSE
      [] v.tag = "int"   -> v.n # 0
      [] OTHER           -> TRUE

\* the attributes probed with the first two in the other order
VersionAttrsSwapped == <<"num_versions", "number_of_versions", "version_count">>

\* the attributes probed, in order
VersionAttrs == <<"number_of_versions", "num_versions", "version_count">>

RECURSIVE VersionCountFrom(_, _)
VersionCountFrom(m, i) ==
    IF i > Len(VersionAttrs)
    THEN IF Truthy(m.latest_version_name) \/ Truthy(m.latest_version_id)
            \/ Truthy(m.latest_version_number)
         THEN 1 ELSE 0
    ELSE LET value == m[VersionAttrs[i]]
         IN  IF value = VNone THEN VersionCountFrom(m, i + 1)
             ELSE IF ~IntOk(value) THEN VersionCountFrom(m, i + 1)
             ELSE IF value.n >= 0 THEN value.n
             ELSE VersionCountFrom(m, i + 1)

get_model_version_count(m) == VersionCountFrom(m, 1)

----------------------------------------------------------------------------
(* Core and project statistics *)

\* a rate that reports 100.0 for an empty run list
SuccessRateFullWhenEmpty(completed, total) ==
    IF total > 0 THEN RoundHalfEven(completed * 1000, total) ELSE 1000

\* round(completed / total * 100, 1) if total > 0 else 0, in tenths
SuccessRate(completed, total) ==
    IF total > 0 THEN RoundHalfEven(completed * 1000, total) ELSE 0

StatusCounts(rs) == Counter([i \in 1..Len(rs) |-> normalize_status(rs[i].status)])

PipelineIds(rs, name_by_id, id_by_name) ==
    {get_pipeline_id_and_name(rs[i], name_by_id, id_by_name)[1] : i \in 1..Len(rs)}
        \ {None}

UserIds(rs) == {get_user_id(rs[i]) : i \in 1..Len(rs)} \ {None}

InYear(x, y) == is_target_year(parse_datetime(x.created), y)

\* runs_per_month of compute_project_stats: parsed and in the target year
RunsPerMonthOfYear(rs, y) ==
    [m \in 1..12 |->
        Cardinality({i \in 1..Len(rs) :
            LET created == parse_datetime(rs[i].created)
            IN  created # NoDt /\ created.year = y /\ created.month = m})]

\* indices i (of the later month) whose previous month has runs
\* a variant that passes over the months without runs on either side
GrowthIdxBetweenActiveMonths(rpm) == {i \in 2..Len(rpm) : rpm[i - 1] > 0 /\ rpm[i] > 0}

\* the months i of range(1, len(runs_per_month)) with runs in month i - 1,
\* as 1-based positions
GrowthIdx(rpm) == {i \in 2..Len(rpm) : rpm[i - 1] > 0}

RECURSIVE ProdPrev(_, _)
ProdPrev(rpm, S) ==
    IF S = {} THEN 1
    ELSE LET i == CHOOSE j \in S : TRUE
         IN  rpm[i - 1] * ProdPrev(rpm, S \ {i})

RECURSIVE GrowthNumer(_, _, _)
GrowthNumer(rpm, S, d) ==
    IF S = {} THEN 0
    ELSE LET i == CHOOSE j \in S : TRUE
         IN  (rpm[i] - rpm[i - 1]) * 100 * (d \div rpm[i - 1])
             + GrowthNumer(rpm, S \ {i}, d)

\* round(mean of (m[i]-m[i-1])/m[i-1]*100, 1) in tenths, 0 without a rate
calculate_mom_growth(rpm) ==
    LET S == GrowthIdx(rpm)
        d == ProdPrev(rpm, S)
    IN  IF S = {} THEN 0
        ELSE RoundHalfEven(GrowthNumer(rpm, S, d) * 10, d * Cardinality(S))

compute_project_stats(project_data, y, name_by_id, id_by_name) ==
    LET rs == project_data.runs
        total_runs == Len(rs)
        status_counts == StatusCounts(rs)
        completed == CounterGet(status_counts, "completed")
        failed == CounterGet(status_counts, "failed")
        runs_per_month == RunsPerMonthOfYear(rs, y)
    IN  [id |-> project_data.project_id,
         name |-> project_data.project_name,
         display_name |-> project_data.display_name,
         total_runs |-> total_runs,
         successful_runs |-> completed,
         failed_runs |-> failed,
         success_rate |-> SuccessRate(completed, total_runs),
         unique_pipelines |-> Cardinality(PipelineIds(rs, name_by_id, id_by_name)),
         unique_users |-> Cardinality(UserIds(rs)),
         artifacts_produced |-> CountIf(project_data.artifacts, LAMBDA a : InYear(a, y)),
         models_created |-> CountIf(project_data.models, LAMBDA m : InYear(m, y)),
         runs_per_month |-> runs_per_month,
         month_over_month_growth |-> calculate_mom_growth(runs_per_month)]

compute_workspace_core_stats(all_runs, all_artifacts, all_models, stks, schedules, services, name_by_id, id_by_name, y, active_project_count) ==
    LET total_runs == Len(all_runs)
        status_counts == StatusCounts(all_runs)
        completed == CounterGet(status_counts, "completed")
        failed == CounterGet(status_counts, "failed")
        models_year == SelectIdx(all_models, LAMBDA m : InYear(m, y))
    IN  [total_runs |-> total_runs,
         successful_runs |-> completed,
         failed_runs |-> failed,
         success_rate |-> SuccessRate(completed, total_runs),
         unique_pipelines |-> Cardinality(PipelineIds(all_runs, name_by_id, id_by_name)),
         unique_users |-> Cardinality(UserIds(all_runs)),
         artifacts_produced |-> CountIf(all_artifacts, LAMBDA a : InYear(a, y)),
         models_created |-> Cardinality(models_year),
         model_versions |->
            SumSeq([i \in 1..Len(all_models) |->
                        IF i \in models_year
                        THEN get_model_version_count(all_models[i]) ELSE 0]),
         total_stacks |-> Len(stks),
         active_schedules |-> CountIf(schedules, LAMBDA s : s.active),
         active_services |-> CountIf(services, LAMBDA s : s.state = "active"),
         active_projects |-> active_project_count,
         status_breakdown |-> status_counts]

----------------------------------------------------------------------------
(* Python's max / min over a non-empty sequence of integer keys: the index *)
(* of the first maximal (minimal) key                                      *)

\* a maximum that moves on to a later element of equal key
RECURSIVE ArgMaxLastFrom(_, _, _)
ArgMaxLastFrom(keys, i, best) ==
    IF i > Len(keys) THEN best
    ELSE ArgMaxLastFrom(keys, i + 1, IF keys[i] >= keys[best] THEN i ELSE best)

\* max(): a later element replaces the best one only with a greater key
RECURSIVE ArgMaxFrom(_, _, _)
ArgMaxFrom(keys, i, best) ==
    IF i > Len(keys) THEN best
    ELSE ArgMaxFrom(keys, i + 1, IF keys[i] > keys[best] THEN i ELSE best)

ArgMax(keys) == ArgMaxFrom(keys, 2, 1)

RECURSIVE ArgMinFrom(_, _, _)
ArgMinFrom(keys, i, best) ==
    IF i > Len(keys) THEN best
    ELSE ArgMinFrom(keys, i + 1, IF keys[i] < keys[best] THEN i ELSE best)

ArgMin(keys) == ArgMinFrom(keys, 2, 1)

\* the subsequence of s at the indices in S, in order
RECURSIVE SubSeqAt(_, _, _)
SubSeqAt(s, S, i) ==
    IF i > Len(s) THEN <<>>
    ELSE (IF i \in S THEN <<s[i]>> ELSE <<>>) \o SubSeqAt(s, S, i + 1)

Filter(s, P(_)) == SubSeqAt(s, SelectIdx(s, P), 1)

----------------------------------------------------------------------------
(* Time analytics *)

MonthNames ==
    <<"January", "February", "March", "April", "May", "June", "July",
      "August", "September", "October", "November", "December">>

DayNames ==
    <<"Monday", "Tuesday", "Wednesday", "Thursday", "Friday", "Saturday", "Sunday">>

NoHour == -1

\* a variant whose busiest_hour is the noon that avg_hour defaults to
empty_time_analytics_noon ==
    [raised |-> None,
     runs_per_month |-> EmptyMonths,
     busiest_month |-> None, busiest_month_count |-> 0,
     busiest_day |-> None, busiest_day_count |-> 0,
     busiest_hour |-> 12, busiest_hour_count |-> 0,
     first_run |-> RawNone, last_run |-> RawNone,
     weekend_runs |-> 0, weekday_runs |-> 0,
     day_distribution |-> [d \in 1..7 |-> 0]]

\* the result for no run and for no parsed timestamp; raised names the
\* exception that left the function, None when it returned
empty_time_analytics ==
    [raised |-> None,
     runs_per_month |-> EmptyMonths,
     busiest_month |-> None, busiest_month_count |-> 0,
     busiest_day |-> None, busiest_day_count |-> 0,
     busiest_hour |-> NoHour, busiest_hour_count |-> 0,
     first_run |-> RawNone, last_run |-> RawNone,
     weekend_runs |-> 0, weekday_runs |-> 0,
     day_distribution |-> [d \in 1..7 |-> 0]]

\* datetime.isoformat(): an ISO-8601 string, with the offset of an aware value
isoformat(dt) == RawIso(dt, IF dt.aware THEN "+00:00" ELSE "")

\* the order of datetimes of one kind
DtKey(dt) == ((dt.year * 12 + dt.month) * 31 + dt.day) * 24 + dt.hour

\* the parsed created values of the runs, in run order
RunTimes(rs) ==
    LET parsed == [i \in 1..Len(rs) |-> parse_datetime(rs[i].created)]
    IN  Filter(parsed, LAMBDA dt : dt # NoDt)

\* key of the first maximal count of a non-empty counter
BusiestKey(c) == c[ArgMax([i \in 1..Len(c) |-> c[i].count])].key

\* min() / max() compare an offset-naive with an offset-aware datetime as
\* soon as both kinds are in the list, and that comparison raises TypeError
MixedKinds(times) ==
    \E i, j \in 1..Len(times) : times[i].aware /\ ~times[j].aware

\* month buckets read one month too early, as range(12) would
RunsPerMonthShifted(month_counts) == [m \in 1..12 |-> CounterGet(month_counts, m - 1)]

\* [month_counts.get(m, 0) for m in range(1, 13)]
RunsPerMonth(month_counts) == [m \in 1..12 |-> CounterGet(month_counts, m)]

compute_time_analytics(rs) ==
    LET run_times == RunTimes(rs)
        month_counts == Counter([i \in 1..Len(run_times) |-> run_times[i].month])
        day_counts == Counter([i \in 1..Len(run_times) |-> Weekday(run_times[i])])
        hour_counts == Counter([i \in 1..Len(run_times) |-> run_times[i].hour])
        keys == [i \in 1..Len(run_times) |-> DtKey(run_times[i])]
        weekend_runs == CountIf(run_times, LAMBDA dt : Weekday(dt) >= 5)
    IN  IF rs = <<>> THEN empty_time_analytics
        ELSE IF run_times = <<>> THEN empty_time_analytics
        ELSE IF MixedKinds(run_times)
             THEN [empty_time_analytics EXCEPT !.raised = "TypeError"]
        ELSE [raised |-> None,
              runs_per_month |-> RunsPerMonth(month_counts),
              busiest_month |-> MonthNames[BusiestKey(month_counts)],
              busiest_month_count |-> CounterGet(month_counts, BusiestKey(month_counts)),
              busiest_day |-> DayNames[BusiestKey(day_counts) + 1],
              busiest_day_count |-> CounterGet(day_counts, BusiestKey(day_counts)),
              busiest_hour |-> BusiestKey(hour_counts),
              busiest_hour_count |-> CounterGet(hour_counts, BusiestKey(hour_counts)),
              first_run |-> isoformat(run_times[ArgMin(keys)]),
              last_run |-> isoformat(run_times[ArgMax(keys)]),
              weekend_runs |-> weekend_runs,
              weekday_runs |-> Len(run_times) - weekend_runs,
              day_distribution |-> [d \in 1..7 |-> CounterGet(day_counts, d - 1)]]

----------------------------------------------------------------------------
(* sorted(xs, key=..., reverse=True): a stable sort, so elements with equal *)
(* keys keep their input order.  Returns the input indices in output order. *)

\* an insertion that puts an element before the elements of equal key
RECURSIVE InsertDescBeforeEqual(_, _, _, _)
InsertDescBeforeEqual(sorted, i, keys, at) ==
    IF at > Len(sorted) THEN Append(sorted, i)
    ELSE IF keys[sorted[at]] <= keys[i]
         THEN SubSeq(sorted, 1, at - 1) \o <<i>> \o SubSeq(sorted, at, Len(sorted))
         ELSE InsertDescBeforeEqual(sorted, i, keys, at + 1)

\* insertion behind the elements of greater or equal key
RECURSIVE InsertDesc(_, _, _, _)
InsertDesc(sorted, i, keys, at) ==
    IF at > Len(sorted) THEN Append(sorted, i)
    ELSE IF keys[sorted[at]] < keys[i]
         THEN SubSeq(sorted, 1, at - 1) \o <<i>> \o SubSeq(sorted, at, Len(sorted))
         ELSE InsertDesc(sorted, i, keys, at + 1)

RECURSIVE SortedIdxDescFrom(_, _, _)
SortedIdxDescFrom(keys, i, sorted) ==
    IF i > Len(keys) THEN sorted
    ELSE SortedIdxDescFrom(keys, i + 1, InsertDesc(sorted, i, keys, 1))

SortedIdxDesc(keys) == SortedIdxDescFrom(keys, 1, <<>>)

SortDesc(xs, keys) ==
    LET idx == SortedIdxDesc(keys) IN [k \in 1..Len(xs) |-> xs[idx[k]]]

----------------------------------------------------------------------------
(* User statistics *)

\* str(user_id)[:8]; the ids of the model are shorter than 8 characters
Prefix8(id) == id

\* {str(user.id): user for user in users}: the last user of an id wins
UserLookup(us, id) ==
    LET S == {i \in 1..Len(us) : us[i].id = id}
    IN  IF S = {} THEN 0 ELSE CHOOSE i \in S : \A j \in S : j <= i

\* keys of user_runs in insertion order: user ids by their first run
UserOrder(rs) ==
    LET ids == [i \in 1..Len(rs) |-> get_user_id(rs[i])]
        c == Counter(Filter(ids, LAMBDA id : id # None))
    IN  [k \in 1..Len(c) |-> c[k].key]

UserStat(user_id, user, rs, name_by_id, id_by_name) ==
    LET user_run_list == Filter(rs, LAMBDA r : get_user_id(r) = user_id)
        total == Len(user_run_list)
        failed == CountIf(user_run_list, LAMBDA r : normalize_status(r.status) = "failed")
        completed == CountIf(user_run_list, LAMBDA r : normalize_status(r.status) = "completed")
        times == RunTimes(user_run_list)
        hours == [i \in 1..Len(times) |-> times[i].hour]
        name == IF user.name # None THEN user.name ELSE Prefix8(user_id)
    IN  [id |-> user_id,
         name |-> name,
         full_name |-> IF user.full_name # None THEN user.full_name ELSE name,
         avatar |-> user.avatar_url,
         total_runs |-> total,
         failed_runs |-> failed,
         completed_runs |-> completed,
         success_rate |-> SuccessRate(completed, total),
         avg_hour |-> IF hours # <<>> THEN RoundHalfEven(SumSeq(hours) * 10, Len(hours))
                      ELSE 120,
         weekend_runs |-> CountIf(times, LAMBDA dt : Weekday(dt) >= 5),
         unique_pipelines |->
            Cardinality(PipelineIds(user_run_list, name_by_id, id_by_name))]

\* a filter that forgets the service-account flag
KeptUserAnyAccount(us, id) == UserLookup(us, id) # 0

\* a user id is kept when it resolves to a user that is no service account
KeptUser(us, id) ==
    UserLookup(us, id) # 0 /\ ~us[UserLookup(us, id)].is_service_account

compute_user_stats(rs, us, name_by_id, id_by_name) ==
    LET kept == Filter(UserOrder(rs), LAMBDA id : KeptUser(us, id))
        stats == [k \in 1..Len(kept) |->
                     UserStat(kept[k], us[UserLookup(us, kept[k])], rs,
                              name_by_id, id_by_name)]
    IN  SortDesc(stats, [k \in 1..Len(stats) |-> stats[k].total_runs])

----------------------------------------------------------------------------
(* Top pipelines *)

TopN == 10

\* pipeline ids of the runs in first-encounter order, with their run counts
PipelineCounts(rs, name_by_id, id_by_name) ==
    LET ids == [i \in 1..Len(rs) |->
                    get_pipeline_id_and_name(rs[i], name_by_id, id_by_name)[1]]
    IN  Counter(Filter(ids, LAMBDA id : id # None))

\* pipeline_info[id]: set by the first run of the pipeline
PipelineInfo(rs, id, name_by_id, id_by_name, project_by_id) ==
    LET first == CHOOSE i \in 1..Len(rs) :
                    /\ get_pipeline_id_and_name(rs[i], name_by_id, id_by_name)[1] = id
                    /\ \A j \in 1..(i - 1) :
                          get_pipeline_id_and_name(rs[j], name_by_id, id_by_name)[1] # id
        pipeline_name == get_pipeline_id_and_name(rs[first], name_by_id, id_by_name)[2]
    IN  [name |-> IF pipeline_name # None THEN pipeline_name
                  ELSE IF Get(name_by_id, id, None) # None THEN name_by_id[id]
                  ELSE Prefix8(id),
         project |-> Get(project_by_id, id, "Unknown")]

excluded_names == {"unlisted"}

\* a loop that takes the first TopN of the ranking and then drops the names
RECURSIVE CollectTopOfFirstN(_, _, _)
CollectTopOfFirstN(ranked, i, top) ==
    IF i > Len(ranked) \/ i > TopN THEN top
    ELSE IF Lower(ranked[i].name) \in excluded_names
         THEN CollectTopOfFirstN(ranked, i + 1, top)
         ELSE CollectTopOfFirstN(ranked, i + 1, Append(top, ranked[i]))

\* the loop over most_common(): skip excluded names, stop at TopN entries
RECURSIVE CollectTop(_, _, _)
CollectTop(ranked, i, top) ==
    IF i > Len(ranked) THEN top
    ELSE IF Lower(ranked[i].name) \in excluded_names
         THEN CollectTop(ranked, i + 1, top)
         ELSE LET top2 == Append(top, ranked[i])
              IN  IF Len(top2) >= TopN THEN top2
                  ELSE CollectTop(ranked, i + 1, top2)

\* Counter.most_common(): sorted by count, descending and stable
most_common(c) == SortDesc(c, [i \in 1..Len(c) |-> c[i].count])

compute_top_pipelines(rs, name_by_id, id_by_name, project_by_id) ==
    LET pipeline_counts == PipelineCounts(rs, name_by_id, id_by_name)
        common == most_common(pipeline_counts)
        ranked == [i \in 1..Len(common) |->
                     LET info == PipelineInfo(rs, common[i].key, name_by_id,
                                              id_by_name, project_by_id)
                     IN  [name |-> info.name, project |-> info.project,
                          runs |-> common[i].count]]
    IN  CollectTop(ranked, 1, <<>>)

----------------------------------------------------------------------------
(* Awards: a mapping from award key to award record.  The value of an     *)
(* award is the number its text is formatted from.                         *)

UserAward(title, u, value) ==
    [title |-> title, user |-> u.full_name, user_email |-> u.name,
     avatar |-> u.avatar, value |-> value]

ProjectAward(title, p, value) ==
    [title |-> title, project |-> p.name, value |-> value]

NoAwards == [k \in {} |-> ProjectAward(None, [name |-> None], 0)]

\* max(xs, key=...): the first element with the maximal key
MaxBy(xs, keys) == xs[ArgMax(keys)]

\* min(xs, key=...): the first element with the minimal key
MinBy(xs, keys) == xs[ArgMin(keys)]

KeysOf(xs, field) == [i \in 1..Len(xs) |-> xs[i][field]]

FailureThreshold == 5

StreakMinRuns == 20

GrowthMinRuns == 20

\* a window that opens at noon
InNightWindowFromNoon(avg_hour) == avg_hour >= 120 \/ avg_hour <= 60

\* avg_hour >= 18 or avg_hour <= 6, in tenths of an hour
InNightWindow(avg_hour) == avg_hour >= 180 \/ avg_hour <= 60

NightKey(u) == IF InNightWindow(u.avg_hour) THEN u.avg_hour ELSE 0

PipelineOverlord(us) ==
    LET top_runner == MaxBy(us, KeysOf(us, "total_runs"))
    IN  "pipeline_overlord" :> UserAward("Pipeline Overlord", top_runner,
                                         top_runner.total_runs)

\* a threshold that asks for more than FailureThreshold failures
FailureChampionAbove(us) ==
    LET users_with_failures == Filter(us, LAMBDA u : u.failed_runs > FailureThreshold)
        top_failer == MaxBy(users_with_failures, KeysOf(users_with_failures, "failed_runs"))
    IN  IF users_with_failures # <<>>
        THEN "failure_champion" :> UserAward("Failure Champion", top_failer,
                                             top_failer.failed_runs)
        ELSE NoAwards

FailureChampion(us) ==
    LET users_with_failures == Filter(us, LAMBDA u : u.failed_runs >= FailureThreshold)
        top_failer == MaxBy(users_with_failures, KeysOf(users_with_failures, "failed_runs"))
    IN  IF users_with_failures # <<>>
        THEN "failure_champion" :> UserAward("Failure Champion", top_failer,
                                             top_failer.failed_runs)
        ELSE NoAwards

SuccessStreak(us) ==
    LET qualified == Filter(us, LAMBDA u : u.total_runs >= StreakMinRuns)
        most_reliable == MaxBy(qualified, KeysOf(qualified, "success_rate"))
    IN  IF qualified # <<>>
        THEN "success_streak" :> UserAward("Success Streak", most_reliable,
                                           most_reliable.success_rate)
        ELSE NoAwards

NightOwl(us) ==
    LET night_owl == MaxBy(us, [i \in 1..Len(us) |-> NightKey(us[i])])
    IN  IF InNightWindow(night_owl.avg_hour)
        THEN "night_owl" :> UserAward("Night Owl", night_owl, night_owl.avg_hour)
        ELSE NoAwards

EarlyBird(us) ==
    LET early_birds == Filter(us, LAMBDA u : 50 <= u.avg_hour /\ u.avg_hour <= 90)
        early_bird == MinBy(early_birds, KeysOf(early_birds, "avg_hour"))
    IN  IF early_birds # <<>>
        THEN "early_bird" :> UserAward("Early Bird", early_bird, early_bird.avg_hour)
        ELSE NoAwards

WeekendWarrior(us) ==
    LET weekend_warrior == MaxBy(us, KeysOf(us, "weekend_runs"))
    IN  IF weekend_warrior.weekend_runs > 0
        THEN "weekend_warrior" :> UserAward("Weekend Warrior", weekend_warrior,
                                            weekend_warrior.weekend_runs)
        ELSE NoAwards

VarietyPack(us) ==
    LET variety == MaxBy(us, KeysOf(us, "unique_pipelines"))
    IN  IF variety.unique_pipelines > 1
        THEN "variety_pack" :> UserAward("Variety Pack", variety,
                                         variety.unique_pipelines)
        ELSE NoAwards

Workhorse(ps) ==
    LET workhorse == MaxBy(ps, KeysOf(ps, "total_runs"))
    IN  "workhorse_project" :> ProjectAward("Workhorse", workhorse,
                                            workhorse.total_runs)

RisingStar(ps) ==
    LET growth_qualified == Filter(ps, LAMBDA p : p.total_runs >= GrowthMinRuns)
        rising_star == MaxBy(growth_qualified,
                             KeysOf(growth_qualified, "month_over_month_growth"))
    IN  IF growth_qualified # <<>> /\ rising_star.month_over_month_growth > 0
        THEN "rising_star_project" :> ProjectAward("Rising Star", rising_star,
                                          rising_star.month_over_month_growth)
        ELSE NoAwards

\* the runs argument is not read by the function
compute_awards(us, rs, ps) ==
    (IF us # <<>>
     THEN PipelineOverlord(us) @@ FailureChampion(us) @@ SuccessStreak(us)
          @@ NightOwl(us) @@ EarlyBird(us) @@ WeekendWarrior(us) @@ VarietyPack(us)
     ELSE NoAwards)
    @@
    (IF ps # <<>> THEN Workhorse(ps) @@ RisingStar(ps) ELSE NoAwards)

----------------------------------------------------------------------------
(* Values the variables hold before the function that sets them returns *)

NoCoreStats ==
    [total_runs |-> 0, successful_runs |-> 0, failed_runs |-> 0,
     success_rate |-> 0, unique_pipelines |-> 0, unique_users |-> 0,
     artifacts_produced |-> 0, models_created |-> 0, model_versions |-> 0,
     total_stacks |-> 0, active_schedules |-> 0, active_services |-> 0,
     active_projects |-> 0, status_breakdown |-> <<>>]

NoProjectStats ==
    [id |-> None, name |-> None, display_name |-> None, total_runs |-> 0,
     successful_runs |-> 0, failed_runs |-> 0, success_rate |-> 0,
     unique_pipelines |-> 0, unique_users |-> 0, artifacts_produced |-> 0,
     models_created |-> 0, runs_per_month |-> EmptyMonths,
     month_over_month_growth |-> 0]

NoModel ==
    [created |-> RawNone, number_of_versions |-> VNone, num_versions |-> VNone,
     version_count |-> VNone, latest_version_name |-> VNone,
     latest_version_id |-> VNone, latest_version_number |-> VNone]

----------------------------------------------------------------------------
(* Input values *)

TargetYear == 2025

Dt(y, m, d, h) == [year |-> y, month |-> m, day |-> d, hour |-> h, aware |-> FALSE]

Run(status, created, user_id, res_user, res_pipeline, config_name) ==
    [status |-> status, created |-> created, user_id |-> user_id,
     res_user |-> res_user, res_pipeline |-> res_pipeline,
     config_name |-> config_name]

Pipeline(id, name, project) == [id |-> id, name |-> name, project |-> project]

SomePipelines == <<Pipeline("p1", "train", "proj"), Pipeline("p2", "deploy", None)>>

SomeArtifacts ==
    <<[created |-> RawDatetime(Dt(TargetYear, 2, 3, 9))],
      [created |-> RawIso(Dt(TargetYear - 1, 12, 31, 23), "Z")],
      [created |-> RawBad]>>

SomeModels ==
    <<[NoModel EXCEPT !.created = RawDatetime(Dt(TargetYear, 5, 1, 8)),
                      !.num_versions = VInt(3)],
      [NoModel EXCEPT !.created = RawIso(Dt(TargetYear, 6, 1, 8), ""),
                      !.latest_version_name = VText],
      [NoModel EXCEPT !.created = RawDatetime(Dt(TargetYear + 1, 1, 1, 0)),
                      !.number_of_versions = VInt(7)]>>

SomeSchedules == <<[active |-> TRUE], [active |-> FALSE]>>

SomeServices == <<[state |-> "active"], [state |-> "inactive"], [state |-> "active"]>>

RawStatuses == {"completed", "COMPLETED", "failed", "running", None}

\* runs for the status counters: every raw status, resolvable or not
StatsRuns ==
    {Run(st, RawDatetime(Dt(TargetYear, 3, 1, 10)), "u1", None,
         [id |-> "p1", name |-> "train"], None) : st \in RawStatuses}
    \cup {Run(st, RawNone, None, None, NoPipeline, None) : st \in RawStatuses}

ProjectData(rs) ==
    [project_id |-> "proj-id", project_name |-> "proj", display_name |-> "Proj",
     runs |-> rs, artifacts |-> artifacts, models |-> models]

Maps == build_pipeline_maps(pipelines)

----------------------------------------------------------------------------
(* The aggregation stages as steps *)

NoLeaderboards == [most_runs |-> <<>>, highest_success_rate |-> <<>>,
                   most_users |-> <<>>]

NoMapping == [projects |-> <<>>, pipelines |-> <<>>]

NoRanking ==
    /\ project_leaderboards = NoLeaderboards
    /\ project_names = <<>>
    /\ pipeline_names = <<>>
    /\ mapping = NoMapping
    /\ growth_months = EmptyMonths
    /\ mom_growth = 0

NoFetch ==
    /\ remote_runs = <<>>
    /\ page_size = 1
    /\ page_index = 0
    /\ requests = 0
    /\ fetched_runs = <<>>
    /\ fetch_pc = "idle"

NoLoop ==
    /\ remote_projects = <<>>
    /\ project_index = 0
    /\ project_data_list = <<>>
    /\ failed_projects = <<>>
    /\ skipped_projects = <<>>

NoOutputs ==
    /\ NoRanking
    /\ NoFetch
    /\ NoLoop
    /\ core_stats = NoCoreStats
    /\ project_stats = NoProjectStats
    /\ time_analytics = empty_time_analytics
    /\ awards = NoAwards
    /\ top_pipelines = <<>>
    /\ version_count = 0

FixedWorkspace ==
    /\ year = TargetYear
    /\ pipelines = SomePipelines
    /\ artifacts = SomeArtifacts
    /\ models = SomeModels
    /\ stacks = <<"default", "gcp">>
    /\ all_schedules = SomeSchedules
    /\ all_services = SomeServices

ComputeWorkspaceCoreStats ==
    /\ "compute_workspace_core_stats" \notin done
    /\ core_stats' = compute_workspace_core_stats(runs, artifacts, models, stacks,
                         all_schedules, all_services, Maps.name_by_id,
                         Maps.id_by_name, year, Len(project_data_list))
    /\ done' = done \cup {"compute_workspace_core_stats"}
    /\ UNCHANGED <<rankingVars, fetchVars, loopVars>>
    /\ UNCHANGED <<year, runs, users, pipelines, artifacts, models, project_stats,
                   time_analytics, user_stats, projects, awards, top_pipelines,
                   stacks, all_schedules, all_services, model, version_count>>

ComputeProjectStats ==
    /\ "compute_project_stats" \notin done
    /\ project_stats' = compute_project_stats(ProjectData(runs), year,
                            Maps.name_by_id, Maps.id_by_name)
    /\ done' = done \cup {"compute_project_stats"}
    /\ UNCHANGED <<rankingVars, fetchVars, loopVars>>
    /\ UNCHANGED <<year, runs, users, pipelines, artifacts, models, core_stats,
                   time_analytics, user_stats, projects, awards, top_pipelines,
                   stacks, all_schedules, all_services, model, version_count>>

ComputeTimeAnalytics ==
    /\ "compute_time_analytics" \notin done
    /\ time_analytics' = compute_time_analytics(runs)
    /\ done' = done \cup {"compute_time_analytics"}
    /\ UNCHANGED <<rankingVars, fetchVars, loopVars>>
    /\ UNCHANGED <<year, runs, users, pipelines, artifacts, models, core_stats,
                   project_stats, user_stats, projects, awards, top_pipelines,
                   stacks, all_schedules, all_services, model, version_count>>

----------------------------------------------------------------------------
(* Specification of the status counters: compute_workspace_core_stats and *)
(* compute_project_stats over every run list of at most MaxRuns runs       *)

InitStats ==
    /\ FixedWorkspace
    /\ NoOutputs
    /\ runs \in SeqsUpTo(StatsRuns, MaxRuns)
    /\ users = <<>>
    /\ user_stats = <<>>
    /\ projects = <<>>
    /\ model = NoModel
    /\ done = {}

NextStats == ComputeWorkspaceCoreStats \/ ComputeProjectStats

SpecStats == InitStats /\ [][NextStats]_vars

OtherStatuses(rs) ==
    CountIf(rs, LAMBDA r : r.status = None
                           \/ Lower(r.status) \notin {"completed", "failed"})

\* C1: successful_runs + failed_runs + the runs of any other normalized
\* status make up total_runs, for the workspace and the project variant, and
\* the values of the workspace's status_breakdown sum to total_runs.
StatusCountsPartitionRuns ==
    /\ "compute_workspace_core_stats" \in done =>
          /\ core_stats.successful_runs + core_stats.failed_runs
                + OtherStatuses(runs) = core_stats.total_runs
          /\ CounterTotal(core_stats.status_breakdown) = core_stats.total_runs
    /\ "compute_project_stats" \in done =>
          project_stats.successful_runs + project_stats.failed_runs
             + OtherStatuses(runs) = project_stats.total_runs

StatusCountsWitness ==
    /\ done = {"compute_workspace_core_stats", "compute_project_stats"}
    /\ core_stats.successful_runs = 2
    /\ core_stats.failed_runs = 1
    /\ OtherStatuses(runs) = 1
    /\ \E i \in 1..Len(runs) : runs[i].status = "COMPLETED"

\* C2 as stated: success_rate is 0 exactly when total_runs is 0.
SuccessRateZeroIffNoRuns ==
    "compute_workspace_core_stats" \in done =>
        (core_stats.success_rate = 0 <=> core_stats.total_runs = 0)

\* C2 amended: success_rate is 0 whenever total_runs is 0 and whenever no run
\* is completed; a success_rate of 0 only bounds the completed runs by
\* total_runs / 2000, it does not make total_runs 0.
SuccessRateZeroCases ==
    /\ "compute_workspace_core_stats" \in done =>
          /\ core_stats.total_runs = 0 => core_stats.success_rate = 0
          /\ core_stats.successful_runs = 0 => core_stats.success_rate = 0
          /\ core_stats.success_rate = 0 =>
                core_stats.successful_runs * 2000 <= core_stats.total_runs
    /\ "compute_project_stats" \in done =>
          /\ project_stats.total_runs = 0 => project_stats.success_rate = 0
          /\ project_stats.successful_runs = 0 => project_stats.success_rate = 0
          /\ project_stats.success_rate = 0 =>
                project_stats.successful_runs * 2000 <= project_stats.total_runs

SuccessRateZeroWitness ==
    /\ done = {"compute_workspace_core_stats", "compute_project_stats"}
    /\ core_stats.total_runs = 3
    /\ core_stats.successful_runs = 0
    /\ core_stats.success_rate = 0
    /\ project_stats.success_rate = 0

----------------------------------------------------------------------------
(* Specification of the month buckets: compute_time_analytics and          *)
(* compute_project_stats over run lists with every kind of created value   *)

TimeRuns ==
    {Run("completed", c, "u1", None, NoPipeline, "train") :
        c \in {RawDatetime(Dt(TargetYear, 3, 1, 10)),
               RawIso(Dt(TargetYear, 3, 2, 22), ""),
               RawIso(Dt(TargetYear, 7, 15, 9), "Z"),
               RawDatetime(Dt(TargetYear - 1, 12, 31, 23)),
               RawIso(Dt(TargetYear + 1, 1, 1, 0), ""),
               RawBad,
               RawNone}}

InitTime ==
    /\ FixedWorkspace
    /\ NoOutputs
    /\ runs \in SeqsUpTo(TimeRuns, MaxRuns)
    /\ users = <<>>
    /\ user_stats = <<>>
    /\ projects = <<>>
    /\ model = NoModel
    /\ done = {}

NextTime == ComputeTimeAnalytics \/ ComputeProjectStats

SpecTime == InitTime /\ [][NextTime]_vars

Parses(r) == parse_datetime(r.created) # NoDt

ParsesInYear(r) == Parses(r) /\ parse_datetime(r.created).year = year

SumMonths(rpm) == SumSeq([m \in 1..12 |-> rpm[m]])

TimeAnalyticsReturned ==
    /\ "compute_time_analytics" \in done
    /\ time_analytics.raised = None
    /\ \E i \in 1..Len(runs) : Parses(runs[i])

----------------------------------------------------------------------------
(* Specification of get_model_version_count over every combination of the  *)
(* three count attributes and the three latest-version attributes          *)

CountValues == {VNone, VInt(-1), VInt(0), VInt(2), VDigits(3), VText}

ModelValues ==
    {[created |-> RawDatetime(Dt(TargetYear, 5, 1, 8)),
      number_of_versions |-> a, num_versions |-> b, version_count |-> c,
      latest_version_name |-> ln, latest_version_id |-> li,
      latest_version_number |-> lv] :
        a \in CountValues, b \in CountValues, c \in CountValues,
        ln \in {VNone, VEmpty, VText}, li \in {VNone, VText},
        lv \in {VNone, VInt(0), VInt(1)}}

GetModelVersionCount ==
    /\ "get_model_version_count" \notin done
    /\ version_count' = get_model_version_count(model)
    /\ done' = done \cup {"get_model_version_count"}
    /\ UNCHANGED <<rankingVars, fetchVars, loopVars>>
    /\ UNCHANGED <<year, runs, users, pipelines, artifacts, models, core_stats,
                   project_stats, time_analytics, user_stats, projects, awards,
                   top_pipelines, stacks, all_schedules, all_services, model>>

InitModel ==
    /\ FixedWorkspace
    /\ NoOutputs
    /\ runs = <<>>
    /\ users = <<>>
    /\ user_stats = <<>>
    /\ projects = <<>>
    /\ model \in ModelValues
    /\ done = {}

NextModel == GetModelVersionCount

SpecModel == InitModel /\ [][NextModel]_vars

CountFields == <<"number_of_versions", "num_versions", "version_count">>

LatestFields == {"latest_version_name", "latest_version_id", "latest_version_number"}

PresentFields == {i \in 1..3 : model[CountFields[i]] # VNone}

\* a count field that spells a non-negative integer
UsableFields ==
    {i \in 1..3 : /\ model[CountFields[i]].tag \in {"int", "digits"}
                  /\ model[CountFields[i]].n >= 0}

First(S) == CHOOSE i \in S : \A j \in S : i <= j

\* C6 as stated: the result is the value of the first count field that is
\* present, and without a present count field it is 1 if a latest-version
\* field is set and 0 otherwise.
VersionCountIsFirstPresentField ==
    "get_model_version_count" \in done =>
        IF PresentFields # {}
        THEN /\ model[CountFields[First(PresentFields)]].tag \in {"int", "digits"}
             /\ version_count = model[CountFields[First(PresentFields)]].n
        ELSE version_count = IF \E f \in LatestFields : model[f] # VNone
                             THEN 1 ELSE 0

\* C6 amended: the result is the integer spelled by the first count field, in
\* the order number_of_versions, num_versions, version_count, that is not
\* None, converts with int() and is not negative; when no count field is
\* usable it is 1 if a latest-version field is truthy and 0 otherwise.
VersionCountIsFirstUsableField ==
    "get_model_version_count" \in done =>
        IF UsableFields # {}
        THEN version_count = model[CountFields[First(UsableFields)]].n
        ELSE version_count =
                IF \E f \in LatestFields :
                      /\ model[f].tag \notin {"none", "empty"}
                      /\ ~(model[f].tag = "int" /\ model[f].n = 0)
                THEN 1 ELSE 0

VersionCountWitness ==
    /\ "get_model_version_count" \in done
    /\ model.number_of_versions = VInt(-1)
    /\ model.num_versions = VText
    /\ model.version_count = VDigits(3)
    /\ version_count = 3

----------------------------------------------------------------------------
(* Specification of the user statistics and the user awards made of them:  *)
(* compute_user_stats, then compute_awards, over every list of at most     *)
(* MaxUserRuns runs of humans, a service account, an unknown user id and   *)
(* runs without a user                                                     *)

User(id, name, full_name, service) ==
    [id |-> id, name |-> name, full_name |-> full_name,
     avatar_url |-> None, is_service_account |-> service]

UserLists ==
    {<<User("u1", "alice", "Alice A", FALSE), User("u2", "bob", None, FALSE),
       User("u3", "svc-bot", "Deploy Bot", TRUE)>>,
     <<User("u1", "alice", "Alice A", FALSE), User("u2", None, None, FALSE),
       User("u3", "carol", None, FALSE)>>}

\* status, created, embedded pipeline and configured name of a run
RunShapes ==
    {<<"completed", RawDatetime(Dt(TargetYear, 3, 1, 20)),
       [id |-> "p1", name |-> "train"], None>>,
     <<"Failed", RawIso(Dt(TargetYear, 3, 3, 22), ""), NoPipeline, "deploy">>,
     <<"completed", RawDatetime(Dt(TargetYear, 3, 4, 2)), NoPipeline, None>>,
     <<None, RawBad, NoPipeline, "adhoc">>}

\* user_id and resources.user of a run
RunOwners ==
    {<<"u1", None>>, <<None, "u2">>, <<"u3", None>>, <<"u9", "u1">>, <<None, None>>}

UserRuns ==
    {Run(sh[1], sh[2], ow[1], ow[2], sh[3], sh[4]) : sh \in RunShapes, ow \in RunOwners}

ComputeUserStats ==
    /\ "compute_user_stats" \notin done
    /\ user_stats' = compute_user_stats(runs, users, Maps.name_by_id, Maps.id_by_name)
    /\ done' = done \cup {"compute_user_stats"}
    /\ UNCHANGED <<rankingVars, fetchVars, loopVars>>
    /\ UNCHANGED <<year, runs, users, pipelines, artifacts, models, core_stats,
                   project_stats, time_analytics, projects, awards, top_pipelines,
                   stacks, all_schedules, all_services, model, version_count>>

ComputeAwards ==
    /\ "compute_user_stats" \in done
    /\ "compute_awards" \notin done
    /\ awards' = compute_awards(user_stats, runs, projects)
    /\ done' = done \cup {"compute_awards"}
    /\ UNCHANGED <<rankingVars, fetchVars, loopVars>>
    /\ UNCHANGED <<year, runs, users, pipelines, artifacts, models, core_stats,
                   project_stats, time_analytics, user_stats, projects,
                   top_pipelines, stacks, all_schedules, all_services, model,
                   version_count>>

InitUsers ==
    /\ FixedWorkspace
    /\ NoOutputs
    /\ runs \in SeqsUpTo(UserRuns, MaxUserRuns)
    /\ users \in UserLists
    /\ user_stats = <<>>
    /\ projects = <<compute_project_stats(ProjectData(runs), year,
                        Maps.name_by_id, Maps.id_by_name)>>
    /\ model = NoModel
    /\ done = {}

NextUsers == ComputeUserStats \/ ComputeAwards

SpecUsers == InitUsers /\ [][NextUsers]_vars

UserAwardKeys ==
    {"pipeline_overlord", "failure_champion", "success_streak", "night_owl",
     "early_bird", "weekend_warrior", "variety_pack"}

RunsOf(id) == {i \in 1..Len(runs) : get_user_id(runs[i]) = id}

\* C5: a user whose avg_hour lies strictly between 6 and 18 is never the
\* Night Owl winner, however many of the user's runs are late.
NightOwlDecidedOnMeanHour ==
    "compute_awards" \in done =>
        \A k \in 1..Len(user_stats) :
            (60 < user_stats[k].avg_hour /\ user_stats[k].avg_hour < 180) =>
                ~ /\ "night_owl" \in DOMAIN awards
                  /\ awards["night_owl"].user_email = user_stats[k].name

LateRunsOf(id) ==
    {i \in RunsOf(id) : /\ parse_datetime(runs[i].created) # NoDt
                        /\ \/ parse_datetime(runs[i].created).hour >= 18
                           \/ parse_datetime(runs[i].created).hour <= 6}

\* one user with runs at 20h, 22h and 2h: mean 14.7, all three runs late
NightOwlWitness ==
    /\ "compute_awards" \in done
    /\ Len(user_stats) = 1
    /\ user_stats[1].avg_hour = 147
    /\ Cardinality(LateRunsOf(user_stats[1].id)) = 3
    /\ "night_owl" \notin DOMAIN awards
    /\ "pipeline_overlord" \in DOMAIN awards

ServiceAccountIds == {users[i].id : i \in {j \in 1..Len(users) : users[j].is_service_account}}

HumanIds == {users[i].id : i \in {j \in 1..Len(users) : ~users[j].is_service_account}}

\* the names an award would show for a service account or an unknown user id
ExcludedNames ==
    {users[i].name : i \in {j \in 1..Len(users) : users[j].is_service_account}}
    \cup {users[i].full_name : i \in {j \in 1..Len(users) : users[j].is_service_account}}
    \cup ServiceAccountIds
    \cup (UserIds(runs) \ HumanIds)

\* C7: no entry of compute_user_stats has the id of a service account or of
\* an id missing from the user list, and no user award names such a user.
ServiceAccountsExcluded ==
    /\ "compute_user_stats" \in done =>
          \A k \in 1..Len(user_stats) : user_stats[k].id \in HumanIds
    /\ "compute_awards" \in done =>
          \A key \in UserAwardKeys \cap DOMAIN awards :
              /\ awards[key].user_email \notin ExcludedNames
              /\ awards[key].user \notin ExcludedNames

\* a service account with two runs, an unknown id and a human with one run
ServiceAccountsWitness ==
    /\ "compute_awards" \in done
    /\ \E id \in ServiceAccountIds : Cardinality(RunsOf(id)) = 2
    /\ Len(user_stats) = 1
    /\ user_stats[1].total_runs = 1
    /\ "pipeline_overlord" \in DOMAIN awards
    /\ awards["pipeline_overlord"].user_email = "alice"

FirstRunOf(id) == CHOOSE i \in RunsOf(id) : \A j \in RunsOf(id) : i <= j

\* C8: the list of compute_user_stats is in non-increasing total_runs, and
\* users of equal total_runs are in the order of their first run.
UserStatsSortedStable ==
    "compute_user_stats" \in done =>
        \A a, b \in 1..Len(user_stats) :
            a < b =>
                /\ user_stats[a].total_runs >= user_stats[b].total_runs
                /\ user_stats[a].total_runs = user_stats[b].total_runs =>
                      FirstRunOf(user_stats[a].id) < FirstRunOf(user_stats[b].id)

\* three users of one run each, first met in the order u3, u1, u2
UserStatsSortedWitness ==
    /\ "compute_user_stats" \in done
    /\ Len(user_stats) = 3
    /\ user_stats[1].id = "u3"
    /\ user_stats[2].id = "u1"
    /\ user_stats[3].id = "u2"

----------------------------------------------------------------------------
(* Specification of compute_awards over user-stat lists of at most         *)
(* MaxUsers users (in the order compute_user_stats leaves them in) and     *)
(* project-stat lists of at most MaxProjects projects                      *)

PersonNames == <<"alice", "bob", "carol", "dave", "erin", "frank">>

StatProfile(total, failed, avg) ==
    [total_runs |-> total,
     failed_runs |-> failed,
     completed_runs |-> total - failed - 1,
     success_rate |-> SuccessRate(total - failed - 1, total),
     avg_hour |-> avg,
     weekend_runs |-> failed - 4,
     unique_pipelines |-> IF avg = 0 THEN 3 ELSE IF avg = 55 THEN 2 ELSE 1]

StatProfiles ==
    {StatProfile(t, f, a) : t \in {8, 20}, f \in {4, 5, 6}, a \in {0, 55, 147, 200}}

\* the k-th entry of a user-stat list
StatEntry(prof, k) ==
    [id |-> PersonNames[k], name |-> PersonNames[k], full_name |-> PersonNames[k],
     avatar |-> None, total_runs |-> prof.total_runs,
     failed_runs |-> prof.failed_runs, completed_runs |-> prof.completed_runs,
     success_rate |-> prof.success_rate, avg_hour |-> prof.avg_hour,
     weekend_runs |-> prof.weekend_runs, unique_pipelines |-> prof.unique_pipelines]

\* compute_user_stats returns its list in non-increasing total_runs
UserStatLists ==
    {[k \in 1..Len(ps) |-> StatEntry(ps[k], k)] :
        ps \in {q \in SeqsUpTo(StatProfiles, MaxUsers) :
                   \A k \in 1..(Len(q) - 1) : q[k].total_runs >= q[k + 1].total_runs}}

MonthsEndingWith(nov, dec) ==
    [m \in 1..12 |-> IF m = 11 THEN nov ELSE IF m = 12 THEN dec ELSE 0]

MonthsStartingWith(jan, feb) ==
    [m \in 1..12 |-> IF m = 1 THEN jan ELSE IF m = 2 THEN feb ELSE 0]

MonthProfiles ==
    {MonthsEndingWith(0, 20), MonthsEndingWith(10, 20), MonthsEndingWith(5, 5),
     MonthsEndingWith(4, 6), MonthsEndingWith(8, 12), MonthsEndingWith(12, 18),
     MonthsStartingWith(10, 20), MonthsStartingWith(20, 0)}

ProjectNames == <<"proj1", "proj2", "proj3", "proj4", "proj5">>

\* the k-th entry of a project-stat list, all of its runs completed
ProjectEntry(rpm, k) ==
    [NoProjectStats EXCEPT
        !.id = ProjectNames[k], !.name = ProjectNames[k],
        !.display_name = ProjectNames[k],
        !.total_runs = SumSeq(rpm), !.successful_runs = SumSeq(rpm),
        !.success_rate = SuccessRate(SumSeq(rpm), SumSeq(rpm)),
        !.runs_per_month = rpm,
        !.month_over_month_growth = calculate_mom_growth(rpm)]

ProjectStatLists ==
    {[k \in 1..Len(ms) |-> ProjectEntry(ms[k], k)] :
        ms \in SeqsUpTo(MonthProfiles, MaxProjects) \ {<<>>}}

SomeProjectStats ==
    <<ProjectEntry(MonthsEndingWith(4, 6), 1), ProjectEntry(MonthsEndingWith(8, 12), 2),
      ProjectEntry(MonthsEndingWith(12, 18), 3)>>

SomeUserStats == <<StatEntry(StatProfile(20, 5, 200), 1)>>

InitAwards ==
    /\ FixedWorkspace
    /\ NoOutputs
    /\ runs = <<>>
    /\ users = <<>>
    /\ \/ user_stats \in UserStatLists /\ projects = SomeProjectStats
       \/ user_stats = SomeUserStats /\ projects \in ProjectStatLists
    /\ model = NoModel
    /\ done = {"compute_user_stats"}

NextAwards == ComputeAwards

SpecAwards == InitAwards /\ [][NextAwards]_vars

HasAward(aw, key) == key \in DOMAIN aw

\* user_stats with the failed_runs of its i-th user set to n
WithFailedRuns(us, i, n) == [us EXCEPT ![i].failed_runs = n]

MaxFailedRuns == 7

\* C4: with every user at failed_runs <= 4 there is no failure_champion, and
\* raising any one user to 5 makes it present; raising a user's failed_runs
\* never removes a failure_champion that is present.
FailureChampionMonotonic ==
    "compute_awards" \in done =>
        /\ (\A i \in 1..Len(user_stats) : user_stats[i].failed_runs <= 4) =>
              /\ ~HasAward(awards, "failure_champion")
              /\ \A i \in 1..Len(user_stats) :
                    HasAward(compute_awards(WithFailedRuns(user_stats, i, 5), runs, projects),
                             "failure_champion")
        /\ HasAward(awards, "failure_champion") =>
              \A i \in 1..Len(user_stats) :
                  \A n \in (user_stats[i].failed_runs + 1)..MaxFailedRuns :
                      HasAward(compute_awards(WithFailedRuns(user_stats, i, n), runs, projects),
                               "failure_champion")

FailureChampionWitness ==
    /\ "compute_awards" \in done
    /\ Len(user_stats) = 3
    /\ \A i \in 1..3 : user_stats[i].failed_runs = 4
    /\ ~HasAward(awards, "failure_champion")
    /\ HasAward(awards, "pipeline_overlord")

\* i is the first of the candidates C of xs that has the maximal field
IsFirstMax(xs, C, field, i) ==
    /\ i \in C
    /\ \A j \in C : /\ xs[j][field] <= xs[i][field]
                    /\ j < i => xs[j][field] < xs[i][field]

UserAwardToFirstMax(key, C, field) ==
    HasAward(awards, key) =>
        \E i \in 1..Len(user_stats) :
            /\ IsFirstMax(user_stats, C, field, i)
            /\ awards[key].user_email = user_stats[i].name

ProjectAwardToFirstMax(key, C, field) ==
    HasAward(awards, key) =>
        \E i \in 1..Len(projects) :
            /\ IsFirstMax(projects, C, field, i)
            /\ awards[key].project = projects[i].name

AllUsers == 1..Len(user_stats)

AllProjects == 1..Len(projects)

\* C10: each max-by award goes to the first, in list order, of the
\* candidates that share the maximal value.
MaxByAwardsGoToFirst ==
    "compute_awards" \in done =>
        /\ UserAwardToFirstMax("pipeline_overlord", AllUsers, "total_runs")
        /\ UserAwardToFirstMax("failure_champion",
              {i \in AllUsers : user_stats[i].failed_runs >= 5}, "failed_runs")
        /\ UserAwardToFirstMax("success_streak",
              {i \in AllUsers : user_stats[i].total_runs >= 20}, "success_rate")
        /\ UserAwardToFirstMax("weekend_warrior", AllUsers, "weekend_runs")
        /\ UserAwardToFirstMax("variety_pack", AllUsers, "unique_pipelines")
        /\ ProjectAwardToFirstMax("workhorse_project", AllProjects, "total_runs")
        /\ ProjectAwardToFirstMax("rising_star_project",
              {i \in AllProjects : projects[i].total_runs >= 20},
              "month_over_month_growth")

\* the second and the third user tie on failed_runs, success_rate and
\* weekend_runs; the second and the third project tie on growth
MaxByAwardsWitness ==
    /\ "compute_awards" \in done
    /\ Len(user_stats) = 3
    /\ KeysOf(user_stats, "total_runs") = <<20, 20, 20>>
    /\ KeysOf(user_stats, "failed_runs") = <<4, 6, 6>>
    /\ awards["pipeline_overlord"].user_email = "alice"
    /\ awards["failure_champion"].user_email = "bob"
    /\ awards["weekend_warrior"].user_email = "bob"
    /\ awards["success_streak"].user_email = "alice"
    /\ awards["rising_star_project"].project = "proj2"
    /\ awards["workhorse_project"].project = "proj3"

----------------------------------------------------------------------------
(* Specification of compute_top_pipelines: one run of each of the first n  *)
(* of twelve pipelines, preceded by at most MaxExtraRuns further runs, with *)
(* none, one or two pipelines carrying the name for "no pipeline"          *)

TopIds == <<"p01", "p02", "p03", "p04", "p05", "p06", "p07", "p08", "p09",
            "p10", "p11", "p12">>

TopNames == <<"n01", "n02", "n03", "n04", "n05", "n06", "n07", "n08", "n09",
              "n10", "n11", "n12">>

\* the pipelines, with the pipelines of S renamed to a spelling of unlisted
TopPipelineList(renamed) ==
    [k \in 1..Len(TopIds) |->
        Pipeline(TopIds[k], IF k \in DOMAIN renamed THEN renamed[k] ELSE TopNames[k],
                 IF k % 3 = 0 THEN None ELSE "proj")]

Renamings ==
    {<<>>, <<"unlisted">>, <<"n01", "Unlisted">> @@ (12 :> "UNLISTED")}

\* a run of the k-th pipeline: by embedded reference for odd k, by the
\* configured name for even k
RunOfPipeline(ps, k) ==
    IF k % 2 = 1
    THEN Run("completed", RawDatetime(Dt(TargetYear, 3, 1, 10)), "u1", None,
             [id |-> ps[k].id, name |-> ps[k].name], None)
    ELSE Run("completed", RawDatetime(Dt(TargetYear, 3, 1, 10)), "u1", None,
             NoPipeline, ps[k].name)

\* a run whose configured name belongs to no pipeline
OrphanRun ==
    Run("completed", RawDatetime(Dt(TargetYear, 3, 1, 10)), "u1", None,
        NoPipeline, "adhoc")

ExtraRuns(ps) == {RunOfPipeline(ps, k) : k \in {1, 2, 11, 12}} \cup {OrphanRun}

BaseRuns(ps, n) == [k \in 1..n |-> RunOfPipeline(ps, k)]

\* run_extraction overwrites the project of every pipeline of a project's
\* data with that project's name
ProjectByIdInContext(ps, project_name) ==
    [id \in {ps[k].id : k \in 1..Len(ps)} |-> project_name]

ComputeTopPipelines ==
    /\ "compute_top_pipelines" \notin done
    /\ top_pipelines' = compute_top_pipelines(runs, Maps.name_by_id, Maps.id_by_name,
                            ProjectByIdInContext(pipelines, "proj") @@ Maps.project_by_id)
    /\ done' = done \cup {"compute_top_pipelines"}
    /\ UNCHANGED <<rankingVars, fetchVars, loopVars>>
    /\ UNCHANGED <<year, runs, users, pipelines, artifacts, models, core_stats,
                   project_stats, time_analytics, user_stats, projects, awards,
                   stacks, all_schedules, all_services, model, version_count>>

InitTop ==
    /\ year = TargetYear
    /\ artifacts = SomeArtifacts
    /\ models = SomeModels
    /\ stacks = <<"default", "gcp">>
    /\ all_schedules = SomeSchedules
    /\ all_services = SomeServices
    /\ NoOutputs
    /\ \E renamed \in Renamings : pipelines = TopPipelineList(renamed)
    /\ \E extra \in SeqsUpTo(ExtraRuns(pipelines), MaxExtraRuns), n \in {2, 10, 11, 12} :
          runs = extra \o BaseRuns(pipelines, n)
    /\ users = <<>>
    /\ user_stats = <<>>
    /\ projects = <<>>
    /\ model = NoModel
    /\ done = {}

NextTop == ComputeTopPipelines

SpecTop == InitTop /\ [][NextTop]_vars

\* the index in pipelines of the pipeline a run is a run of, 0 for none
PipelineOfRun(r) ==
    IF \E k \in 1..Len(pipelines) :
          \/ r.res_pipeline.id = pipelines[k].id
          \/ r.res_pipeline = NoPipeline /\ r.config_name = pipelines[k].name
    THEN CHOOSE k \in 1..Len(pipelines) :
          \/ r.res_pipeline.id = pipelines[k].id
          \/ r.res_pipeline = NoPipeline /\ r.config_name = pipelines[k].name
    ELSE 0

\* the runs of the k-th pipeline: their number and the index of the first
TallyOf(k) ==
    LET mine == {i \in 1..Len(runs) : PipelineOfRun(runs[i]) = k}
    IN  [count |-> Cardinality(mine),
         first |-> IF mine = {} THEN 0
                   ELSE CHOOSE i \in mine : \A j \in mine : i <= j]

RECURSIVE TallyFrom(_)
TallyFrom(k) ==
    IF k > Len(pipelines) THEN <<>> ELSE <<TallyOf(k)>> \o TallyFrom(k + 1)

RunTally == TallyFrom(1)

SentinelSpellings == {"unlisted", "Unlisted", "UNLISTED"}

\* the pipelines with runs whose name is not the sentinel
RealIn(tally) ==
    {k \in 1..Len(pipelines) :
        tally[k].count > 0 /\ pipelines[k].name \notin SentinelSpellings}

\* a is ranked before b: more runs, or as many and met earlier
RankedBefore(tally, a, b) ==
    \/ tally[a].count > tally[b].count
    \/ tally[a].count = tally[b].count /\ tally[a].first < tally[b].first

RankIn(tally, k) ==
    Cardinality({b \in RealIn(tally) : RankedBefore(tally, b, k)}) + 1

RealPipelines == RealIn(RunTally)

\* C9: compute_top_pipelines returns at most 10 entries and no entry named
\* unlisted in any case; the entries are the first 10 of the pipelines not
\* named so, ranked by run count and, for equal counts, by first run.
TopPipelinesAreFirstTenReal ==
    "compute_top_pipelines" \in done =>
        LET tally == RunTally
            real == RealIn(tally)
        IN  /\ Len(top_pipelines) <= 10
            /\ Len(top_pipelines) = IF Cardinality(real) < 10
                                    THEN Cardinality(real) ELSE 10
            /\ \A i \in 1..Len(top_pipelines) :
                  top_pipelines[i].name \notin SentinelSpellings
            /\ \A i \in 1..(Len(top_pipelines) - 1) :
                  top_pipelines[i].runs >= top_pipelines[i + 1].runs
            /\ \A k \in real :
                  LET rank == RankIn(tally, k)
                  IN  rank <= 10 =>
                         /\ top_pipelines[rank].name = pipelines[k].name
                         /\ top_pipelines[rank].runs = tally[k].count

\* eleven pipelines and the sentinel have runs, the sentinel has the most
\* and the twelfth pipeline, met first, comes next
TopPipelinesWitness ==
    /\ "compute_top_pipelines" \in done
    /\ pipelines[1].name = "unlisted"
    /\ RunTally[1].count = 3
    /\ Cardinality(RealPipelines) = 11
    /\ Len(top_pipelines) = 10
    /\ top_pipelines[1] = [name |-> "n12", project |-> "proj", runs |-> 2]
    /\ top_pipelines[10].name = "n10"


----------------------------------------------------------------------------
(* Project leaderboards: compute_project_leaderboards over every list of    *)
(* at most MaxLeaderProjects project statistics                            *)

MaxLeaderProjects == 3

NamesOf(ps) == [k \in 1..Len(ps) |-> ps[k].name]

\* a variant that lets every project with at least one run qualify
QualifiedFromOneRun(ps) == Filter(ps, LAMBDA p : p.total_runs >= 1)

\* qualified = [p for p in projects if p["total_runs"] >= 10]
Qualified(ps) == Filter(ps, LAMBDA p : p.total_runs >= 10)

compute_project_leaderboards(ps) ==
    IF ps = <<>> THEN NoLeaderboards
    ELSE LET by_runs == SortDesc(ps, KeysOf(ps, "total_runs"))
             qualified == Qualified(ps)
             by_success == IF qualified # <<>>
                           THEN SortDesc(qualified, KeysOf(qualified, "success_rate"))
                           ELSE by_runs
             by_users == SortDesc(ps, KeysOf(ps, "unique_users"))
         IN  [most_runs |-> NamesOf(by_runs),
              highest_success_rate |-> NamesOf(by_success),
              most_users |-> NamesOf(by_users)]

ComputeProjectLeaderboards ==
    /\ "compute_project_leaderboards" \notin done
    /\ project_leaderboards' = compute_project_leaderboards(projects)
    /\ done' = done \cup {"compute_project_leaderboards"}
    /\ UNCHANGED <<project_names, pipeline_names, mapping, growth_months, mom_growth>>
    /\ UNCHANGED <<fetchVars, loopVars>>
    /\ UNCHANGED <<year, runs, users, pipelines, artifacts, models, core_stats,
                   project_stats, time_analytics, user_stats, projects, awards,
                   top_pipelines, stacks, all_schedules, all_services, model,
                   version_count>>

\* a project's statistics as far as the leaderboards read them
LeaderProfile(total, successful, unique) ==
    [total_runs |-> total, successful_runs |-> successful,
     success_rate |-> SuccessRate(successful, total), unique_users |-> unique]

LeaderProfiles ==
    {LeaderProfile(t, s, u) : t \in {4, 10, 30}, s \in {2, 4}, u \in {1, 2}}

LeaderEntry(prof, k) ==
    [NoProjectStats EXCEPT
        !.id = ProjectNames[k], !.name = ProjectNames[k],
        !.display_name = ProjectNames[k],
        !.total_runs = prof.total_runs, !.successful_runs = prof.successful_runs,
        !.success_rate = prof.success_rate, !.unique_users = prof.unique_users]

LeaderProjectLists ==
    {[k \in 1..Len(ps) |-> LeaderEntry(ps[k], k)] :
        ps \in SeqsUpTo(LeaderProfiles, MaxLeaderProjects)}

InitLeaderboards ==
    /\ FixedWorkspace
    /\ NoOutputs
    /\ runs = <<>>
    /\ users = <<>>
    /\ user_stats = <<>>
    /\ projects \in LeaderProjectLists
    /\ model = NoModel
    /\ done = {}

NextLeaderboards == ComputeProjectLeaderboards

SpecLeaderboards == InitLeaderboards /\ [][NextLeaderboards]_vars

\* the project of a name; the names of a project list are distinct
ProjectNamed(name) == projects[CHOOSE i \in 1..Len(projects) : projects[i].name = name]

\* every project of the list exactly once
ListsEveryProjectOnce(names) ==
    /\ Len(names) = Len(projects)
    /\ \A i \in 1..Len(projects) :
          Cardinality({k \in 1..Len(names) : names[k] = projects[i].name}) = 1

\* C11: highest_success_rate lists only projects with total_runs >= 10, in
\* non-increasing success_rate, whenever at least one project qualifies; when
\* none qualifies it is identical to most_runs; most_runs and most_users list
\* every project exactly once.
LeaderboardsQualifyAndFallBack ==
    "compute_project_leaderboards" \in done =>
        LET by_success == project_leaderboards.highest_success_rate
            some_qualifies == \E i \in 1..Len(projects) : projects[i].total_runs >= 10
        IN  /\ some_qualifies =>
                  /\ \A k \in 1..Len(by_success) :
                        ProjectNamed(by_success[k]).total_runs >= 10
                  /\ \A k \in 1..Len(by_success), l \in 1..Len(by_success) :
                        k < l => ProjectNamed(by_success[k]).success_rate
                                    >= ProjectNamed(by_success[l]).success_rate
            /\ ~some_qualifies => by_success = project_leaderboards.most_runs
            /\ ListsEveryProjectOnce(project_leaderboards.most_runs)
            /\ ListsEveryProjectOnce(project_leaderboards.most_users)

\* three projects of which the first has too few runs and the third the
\* better rate: the success ranking drops the first and swaps the others
LeaderboardsWitness ==
    /\ "compute_project_leaderboards" \in done
    /\ Len(projects) = 3
    /\ projects[1].total_runs < 10
    /\ projects[2].total_runs >= 10
    /\ projects[3].total_runs >= 10
    /\ projects[2].success_rate < projects[3].success_rate
    /\ project_leaderboards.highest_success_rate
          = <<projects[3].name, projects[2].name>>
    /\ Len(project_leaderboards.most_runs) = 3


----------------------------------------------------------------------------
(* Anonymization: generate_anonymization_mapping over name lists of up to   *)
(* MaxNames distinct names and a family of outcomes of the two shuffles     *)

MaxNames == 50

MaxShift == 2

CODENAMES_SPACE ==
    <<"Nebula", "Quasar", "Andromeda", "Pulsar", "Nova", "Cosmos", "Orbit", "Eclipse",
      "Stellar", "Comet", "Galaxy", "Meteor", "Astral", "Zenith", "Photon", "Lunar">>

CODENAMES_MYTH ==
    <<"Phoenix", "Titan", "Athena", "Apollo", "Hermes", "Valkyrie", "Odyssey", "Pegasus",
      "Atlas", "Orion", "Neptune", "Mercury", "Artemis", "Thor", "Zeus", "Prometheus">>

CODENAMES_NATURE ==
    <<"Aurora", "Thunder", "Falcon", "Tempest", "Glacier", "Ember", "Zephyr", "Cascade",
      "Horizon", "Summit", "Tundra", "Monsoon", "Vortex", "Blaze", "Frost", "Crimson">>

\* CODENAMES_SPACE + CODENAMES_MYTH + CODENAMES_NATURE
AllCodenames == CODENAMES_SPACE \o CODENAMES_MYTH \o CODENAMES_NATURE

\* A name is held as a number: name n is the n-th name of the lexicographic
\* order of strings, so that sorted() is the numeric order.
\* sorted(set(names)), smallest name first
RECURSIVE SortedSetFrom(_)
SortedSetFrom(S) ==
    IF S = {} THEN <<>>
    ELSE LET least == CHOOSE n \in S : \A m \in S : n <= m
         IN  <<least>> \o SortedSetFrom(S \ {least})

SortedSet(names) == SortedSetFrom({names[i] : i \in 1..Len(names)})

\* an outcome of random.shuffle: position k of the shuffled list holds the
\* entry of position perm[k]
Shuffled(list, perm) == [k \in 1..Len(list) |-> list[perm[k]]]

\* the permutation k -> stride * (k - 1) + shift (mod the length); stride is
\* coprime to the length
Affine(stride, shift, len) == [k \in 1..len |-> ((stride * (k - 1) + shift) % len) + 1]

Strides == {1, 5, 47}

Shuffles == {Affine(a, b, Len(AllCodenames)) : a \in Strides, b \in 0..MaxShift}

\* a variant that wraps round the pool when the names outnumber it
CodenameWrapping(prefix, all_codenames, i) ==
    prefix \o " " \o all_codenames[(i % Len(all_codenames)) + 1]

\* f"Project {all_codenames[i]}" if i < len(all_codenames) else
\* f"Project {i + 1}", for the 0-based index i
Codename(prefix, all_codenames, i) ==
    IF i < Len(all_codenames)
    THEN prefix \o " " \o all_codenames[i + 1]
    ELSE prefix \o " " \o ToString(i + 1)

\* the dict of one kind of names, in insertion order
NameMapping(prefix, names, all_codenames) ==
    LET sorted == SortedSet(names)
    IN  [k \in 1..Len(sorted) |->
            [key |-> sorted[k], codename |-> Codename(prefix, all_codenames, k - 1)]]

\* first and second are the outcomes of the two calls of random.shuffle
generate_anonymization_mapping(projs, pipes, first, second) ==
    LET shuffled == Shuffled(AllCodenames, first)
        reshuffled == Shuffled(shuffled, second)
    IN  [projects |-> NameMapping("Project", projs, shuffled),
         pipelines |-> NameMapping("Pipeline", pipes, reshuffled)]

GenerateAnonymizationMapping ==
    /\ "generate_anonymization_mapping" \notin done
    /\ \E first \in Shuffles, second \in Shuffles :
          mapping' = generate_anonymization_mapping(project_names, pipeline_names,
                                                    first, second)
    /\ done' = done \cup {"generate_anonymization_mapping"}
    /\ UNCHANGED <<project_leaderboards, project_names, pipeline_names,
                   growth_months, mom_growth>>
    /\ UNCHANGED <<fetchVars, loopVars>>
    /\ UNCHANGED <<year, runs, users, pipelines, artifacts, models, core_stats,
                   project_stats, time_analytics, user_stats, projects, awards,
                   top_pipelines, stacks, all_schedules, all_services, model,
                   version_count>>

\* the names n, n - 1, ..., 1 followed by a second mention of name 1
NameList(n) == IF n = 0 THEN <<>> ELSE [k \in 1..(n + 1) |-> IF k > n THEN 1 ELSE n + 1 - k]

InitAnonymization ==
    /\ FixedWorkspace
    /\ core_stats = NoCoreStats
    /\ project_stats = NoProjectStats
    /\ time_analytics = empty_time_analytics
    /\ awards = NoAwards
    /\ top_pipelines = <<>>
    /\ version_count = 0
    /\ NoFetch
    /\ NoLoop
    /\ project_leaderboards = NoLeaderboards
    /\ growth_months = EmptyMonths
    /\ mom_growth = 0
    /\ mapping = NoMapping
    /\ project_names \in {NameList(n) : n \in 0..MaxNames}
    /\ pipeline_names \in {NameList(n) : n \in {0, 2, MaxNames - 1}}
    /\ runs = <<>>
    /\ users = <<>>
    /\ user_stats = <<>>
    /\ projects = <<>>
    /\ model = NoModel
    /\ done = {}

NextAnonymization == GenerateAnonymizationMapping

SpecAnonymization == InitAnonymization /\ [][NextAnonymization]_vars

DistinctNames(names) == {names[i] : i \in 1..Len(names)}

\* one dict of the mapping: a codename for every distinct name, no codename
\* twice, a pool entry for the first 48 names in sorted order and the
\* 1-based position for the names after them
CollisionFree(prefix, names, dict) ==
    /\ {dict[k].key : k \in 1..Len(dict)} = DistinctNames(names)
    /\ Len(dict) = Cardinality(DistinctNames(names))
    /\ \A k \in 1..Len(dict), l \in 1..Len(dict) :
          dict[k].key # dict[l].key => dict[k].codename # dict[l].codename
    /\ \A k \in 1..Len(dict) :
          LET rank == Cardinality({n \in DistinctNames(names) : n < dict[k].key})
          IN  IF rank < 48
              THEN \E w \in 1..48 : dict[k].codename = prefix \o " " \o AllCodenames[w]
              ELSE dict[k].codename = prefix \o " " \o ToString(rank + 1)

\* C12: within the projects map and within the pipelines map no two distinct
\* names receive the same codename, for every outcome of the shuffles and for
\* more names than the 48 entries of the pool: the i-th sorted distinct name
\* takes a pool entry while i < 48 and the numeric codename i + 1 afterwards.
CodenamesCollisionFree ==
    "generate_anonymization_mapping" \in done =>
        /\ CollisionFree("Project", project_names, mapping.projects)
        /\ CollisionFree("Pipeline", pipeline_names, mapping.pipelines)

\* more project names than the pool holds, one of them mentioned twice: the
\* 49th name takes the numeric codename
CodenamesWitness ==
    /\ "generate_anonymization_mapping" \in done
    /\ Len(project_names) > Cardinality(DistinctNames(project_names))
    /\ Len(mapping.projects) > 48
    /\ mapping.projects[49].codename = "Project 49"
    /\ mapping.projects[1].codename # "Project Nebula"
    /\ Len(mapping.pipelines) = 2
    /\ mapping.pipelines[1].codename # "Pipeline Nebula"


----------------------------------------------------------------------------
(* Pipeline resolution: the stages that count pipelines, over every list    *)
(* of at most MaxResolveRuns runs that name their pipeline in every way     *)

MaxResolveRuns == 3

\* embedded pipeline and configured name of a run
PipelinePaths ==
    {<<[id |-> "p1", name |-> "train"], None>>,
     <<[id |-> "p2", name |-> "deploy"], "train">>,
     <<NoPipeline, "train">>,
     <<NoPipeline, "adhoc">>,
     <<NoPipeline, None>>}

ResolveRuns ==
    {Run("completed", RawDatetime(Dt(TargetYear, 3, 1, 10)), owner, None, path[1], path[2]) :
        path \in PipelinePaths, owner \in {"u1", "u2"}}

InitResolve ==
    /\ FixedWorkspace
    /\ NoOutputs
    /\ runs \in SeqsUpTo(ResolveRuns, MaxResolveRuns)
    /\ users = <<User("u1", "alice", "Alice A", FALSE), User("u2", "bob", None, FALSE)>>
    /\ user_stats = <<>>
    /\ projects = <<>>
    /\ model = NoModel
    /\ done = {}

NextResolve == ComputeWorkspaceCoreStats \/ ComputeUserStats \/ ComputeTopPipelines

SpecResolve == InitResolve /\ [][NextResolve]_vars

\* the pipelines of the workspace that carry the name
PipelinesNamed(name) == {k \in 1..Len(pipelines) : pipelines[k].name = name}

\* the pipeline id a run stands for, None when it stands for none
DeclaredId(r) ==
    IF r.res_pipeline # NoPipeline THEN r.res_pipeline.id
    ELSE IF r.config_name # None /\ PipelinesNamed(r.config_name) # {}
         THEN pipelines[CHOOSE k \in PipelinesNamed(r.config_name) :
                           \A l \in PipelinesNamed(r.config_name) : l <= k].id
         ELSE None

DeclaredIds(S) == {DeclaredId(runs[i]) : i \in S} \ {None}

\* C13: an embedded pipeline reference wins; otherwise the configured name
\* is resolved through id_by_name; an unknown name gives (None, name) and no
\* name gives (None, None).  A run whose resolved id is None counts in
\* total_runs but adds nothing to unique_pipelines, to its user's
\* unique_pipelines or to any top_pipelines entry.
NullPipelineRunsCountOnlyAsRuns ==
    /\ \A i \in 1..Len(runs) :
          LET resolved == get_pipeline_id_and_name(runs[i], Maps.name_by_id,
                                                   Maps.id_by_name)
          IN  /\ resolved[1] = DeclaredId(runs[i])
              /\ runs[i].res_pipeline # NoPipeline =>
                    resolved = <<runs[i].res_pipeline.id, runs[i].res_pipeline.name>>
              /\ (runs[i].res_pipeline = NoPipeline /\ resolved[1] = None) =>
                    resolved[2] = runs[i].config_name
    /\ "compute_workspace_core_stats" \in done =>
          /\ core_stats.total_runs = Len(runs)
          /\ core_stats.unique_pipelines = Cardinality(DeclaredIds(1..Len(runs)))
    /\ "compute_user_stats" \in done =>
          \A k \in 1..Len(user_stats) :
              /\ user_stats[k].total_runs = Cardinality(RunsOf(user_stats[k].id))
              /\ user_stats[k].unique_pipelines
                    = Cardinality(DeclaredIds(RunsOf(user_stats[k].id)))
    /\ "compute_top_pipelines" \in done =>
          /\ Len(top_pipelines) = Cardinality(DeclaredIds(1..Len(runs)))
          /\ SumSeq([k \in 1..Len(top_pipelines) |-> top_pipelines[k].runs])
                = Cardinality({i \in 1..Len(runs) : DeclaredId(runs[i]) # None})

\* three runs of one user: one names a known pipeline, one an unknown
\* name, one nothing; all three are runs, one pipeline is counted
NullPipelineRunsWitness ==
    /\ {"compute_workspace_core_stats", "compute_user_stats",
        "compute_top_pipelines"} \subseteq done
    /\ Len(runs) = 3
    /\ \E i \in 1..3 : runs[i].res_pipeline = NoPipeline /\ runs[i].config_name = "adhoc"
    /\ \E i \in 1..3 : runs[i].res_pipeline = NoPipeline /\ runs[i].config_name = None
    /\ \E i \in 1..3 : runs[i].res_pipeline.id = "p2" /\ runs[i].config_name = "train"
    /\ core_stats.total_runs = 3
    /\ core_stats.unique_pipelines = 1
    /\ Len(user_stats) = 1
    /\ user_stats[1].total_runs = 3
    /\ user_stats[1].unique_pipelines = 1
    /\ Len(top_pipelines) = 1
    /\ top_pipelines[1].name = "deploy"
    /\ top_pipelines[1].runs = 1


----------------------------------------------------------------------------
(* Timestamps of both kinds in one list, under SpecTime *)

\* C14: compute_time_analytics returns a result and raises nothing, whatever
\* mixture of datetime values, ISO strings with or without an offset,
\* unparsable strings and absent values the created fields of the runs hold.
TimeAnalyticsNeverRaises ==
    "compute_time_analytics" \in done => time_analytics.raised = None

----------------------------------------------------------------------------
(* Empty inputs: every aggregation stage over a workspace without records   *)

\* runs without a parseable timestamp
BlankRuns ==
    {<<>>,
     <<Run("completed", RawBad, "u1", None, NoPipeline, None)>>,
     <<Run("failed", RawNone, None, None, NoPipeline, None),
       Run(None, RawBad, None, None, NoPipeline, None)>>}

InitEmpty ==
    /\ year = TargetYear
    /\ pipelines \in {<<>>, SomePipelines}
    /\ artifacts = <<>>
    /\ models = <<>>
    /\ stacks = <<>>
    /\ all_schedules = <<>>
    /\ all_services = <<>>
    /\ NoOutputs
    /\ runs \in BlankRuns
    /\ users \in {<<>>} \cup UserLists
    /\ user_stats = <<>>
    /\ projects = <<>>
    /\ model = NoModel
    /\ done = {}

NextEmpty ==
    \/ ComputeWorkspaceCoreStats
    \/ ComputeTimeAnalytics
    \/ ComputeUserStats
    \/ ComputeTopPipelines
    \/ ComputeProjectLeaderboards
    \/ ComputeAwards

SpecEmpty == InitEmpty /\ [][NextEmpty]_vars

AllZero(s) == \A k \in 1..Len(s) : s[k] = 0

\* C15: on empty input every stage returns its defaulted result:
\* compute_time_analytics, also for runs without a parseable timestamp, 12
\* month buckets and 7 day entries at 0, no busiest month, day or hour, no
\* first or last run and 0 weekend and weekday runs; the core statistics
\* every counter and the success rate at 0; compute_user_stats and
\* compute_top_pipelines the empty list; the leaderboards three empty lists;
\* compute_awards the empty mapping.
EmptyInputGivesDefaults ==
    /\ "compute_time_analytics" \in done =>
          /\ time_analytics.raised = None
          /\ Len(time_analytics.runs_per_month) = 12
          /\ AllZero(time_analytics.runs_per_month)
          /\ Len(time_analytics.day_distribution) = 7
          /\ AllZero(time_analytics.day_distribution)
          /\ time_analytics.busiest_month = None
          /\ time_analytics.busiest_day = None
          /\ time_analytics.busiest_hour = NoHour
          /\ time_analytics.busiest_month_count = 0
          /\ time_analytics.busiest_day_count = 0
          /\ time_analytics.busiest_hour_count = 0
          /\ time_analytics.first_run = RawNone
          /\ time_analytics.last_run = RawNone
          /\ time_analytics.weekend_runs = 0
          /\ time_analytics.weekday_runs = 0
    /\ ("compute_workspace_core_stats" \in done /\ runs = <<>>) =>
          /\ \A f \in {"total_runs", "successful_runs", "failed_runs", "success_rate",
                       "unique_pipelines", "unique_users", "artifacts_produced",
                       "models_created", "model_versions", "total_stacks",
                       "active_schedules", "active_services", "active_projects"} :
                core_stats[f] = 0
          /\ core_stats.status_breakdown = <<>>
    /\ ("compute_user_stats" \in done /\ runs = <<>>) => user_stats = <<>>
    /\ ("compute_top_pipelines" \in done /\ runs = <<>>) => top_pipelines = <<>>
    /\ "compute_project_leaderboards" \in done =>
          /\ project_leaderboards.most_runs = <<>>
          /\ project_leaderboards.highest_success_rate = <<>>
          /\ project_leaderboards.most_users = <<>>
    /\ ("compute_awards" \in done /\ user_stats = <<>>) => DOMAIN awards = {}

\* every stage has returned for a workspace without runs, users and records
EmptyInputWitness ==
    /\ done = {"compute_workspace_core_stats", "compute_time_analytics",
               "compute_user_stats", "compute_top_pipelines",
               "compute_project_leaderboards", "compute_awards"}
    /\ runs = <<>>
    /\ users = <<>>
    /\ pipelines = <<>>
    /\ projects = <<>>
    /\ user_stats = <<>>
    /\ DOMAIN awards = {}
    /\ time_analytics.busiest_hour = NoHour


----------------------------------------------------------------------------
(* Month-over-month growth: calculate_mom_growth over monthly counts of up   *)
(* to MaxMonthRuns runs in five months, and over single months of 20 runs    *)

MaxMonthRuns == 2

\* counts in the months 1, 2, 3, 11 and 12
SparseMonths(c) ==
    [m \in 1..12 |-> IF m <= 3 THEN c[m] ELSE IF m >= 11 THEN c[m - 7] ELSE 0]

SingleMonth(month, n) == [m \in 1..12 |-> IF m = month THEN n ELSE 0]

GrowthMonths ==
    {SparseMonths(c) : c \in [1..5 -> 0..MaxMonthRuns]}
        \cup {SingleMonth(m, GrowthMinRuns) : m \in 1..12}
        \cup MonthProfiles

CalculateMomGrowth ==
    /\ "calculate_mom_growth" \notin done
    /\ mom_growth' = calculate_mom_growth(growth_months)
    /\ done' = done \cup {"calculate_mom_growth"}
    /\ UNCHANGED <<project_leaderboards, project_names, pipeline_names, mapping,
                   growth_months>>
    /\ UNCHANGED <<fetchVars, loopVars>>
    /\ UNCHANGED <<year, runs, users, pipelines, artifacts, models, core_stats,
                   project_stats, time_analytics, user_stats, projects, awards,
                   top_pipelines, stacks, all_schedules, all_services, model,
                   version_count>>

\* the project of the monthly counts, alone or before a project that grows
\* or before one that shrinks
InitGrowth ==
    /\ FixedWorkspace
    /\ core_stats = NoCoreStats
    /\ project_stats = NoProjectStats
    /\ time_analytics = empty_time_analytics
    /\ awards = NoAwards
    /\ top_pipelines = <<>>
    /\ version_count = 0
    /\ NoFetch
    /\ NoLoop
    /\ project_leaderboards = NoLeaderboards
    /\ project_names = <<>>
    /\ pipeline_names = <<>>
    /\ mapping = NoMapping
    /\ mom_growth = 0
    /\ growth_months \in GrowthMonths
    /\ projects \in {<<ProjectEntry(growth_months, 1)>>,
                     <<ProjectEntry(growth_months, 1),
                       ProjectEntry(MonthsEndingWith(10, 20), 2)>>,
                     <<ProjectEntry(growth_months, 1),
                       ProjectEntry(MonthsStartingWith(20, 0), 2)>>}
    /\ runs = <<>>
    /\ users = <<>>
    /\ user_stats = <<>>
    /\ model = NoModel
    /\ done = {"compute_user_stats"}

NextGrowth == CalculateMomGrowth \/ ComputeAwards

SpecGrowth == InitGrowth /\ [][NextGrowth]_vars

\* all runs of the counts fall in the one month
OnlyMonth(rpm, month) == rpm[month] > 0 /\ \A m \in 1..12 : m # month => rpm[m] = 0

Abs(x) == IF x < 0 THEN -x ELSE x

\* tenths is a nearest number of tenths to the mean of the rates
\* (m[i] - m[i-1]) / m[i-1] * 100 over the months i of S
NearestTenthOfMeanRate(tenths, rpm, S) ==
    LET d == ProdPrev(rpm, S)
        total == GrowthNumer(rpm, S, d)
    IN  2 * Abs(tenths * d * Cardinality(S) - 10 * total) <= d * Cardinality(S)

\* C16: calculate_mom_growth is the mean, rounded to one decimal, of
\* (m[i] - m[i-1]) / m[i-1] * 100 over exactly the i in 1..11 with
\* m[i-1] > 0, and 0 when there is none; runs in December only give 0; runs
\* in one earlier month only give -100, and such a project is never the
\* Rising Star.
MomGrowthIsMeanOfDefinedRates ==
    /\ "calculate_mom_growth" \in done =>
          LET defined == {i \in 2..12 : growth_months[i - 1] > 0}
          IN  /\ defined = {} => mom_growth = 0
              /\ defined # {} =>
                    NearestTenthOfMeanRate(mom_growth, growth_months, defined)
              /\ OnlyMonth(growth_months, 12) => mom_growth = 0
              /\ \A m \in 1..11 : OnlyMonth(growth_months, m) => mom_growth = -1000
    /\ "compute_awards" \in done =>
          \A k \in 1..Len(projects) :
              (\E m \in 1..11 : OnlyMonth(projects[k].runs_per_month, m)) =>
                  /\ projects[k].month_over_month_growth = -1000
                  /\ ~ /\ HasAward(awards, "rising_star_project")
                       /\ awards["rising_star_project"].project = projects[k].name

\* twenty runs, all of them in March: growth -100, and the Rising Star is
\* the other project
MomGrowthWitness ==
    /\ {"calculate_mom_growth", "compute_awards"} \subseteq done
    /\ OnlyMonth(growth_months, 3)
    /\ mom_growth = -1000
    /\ Len(projects) = 2
    /\ projects[1].total_runs >= GrowthMinRuns
    /\ HasAward(awards, "rising_star_project")
    /\ awards["rising_star_project"].project = projects[2].name


----------------------------------------------------------------------------
(* Night Owl and Early Bird over the user-stat lists of SpecAwards *)

\* C17: whenever some user of user_stats has avg_hour >= 18 or <= 6, the
\* night_owl award is present, in every order of the list and for every
\* avg_hour of the window, 0.0 included.
NightOwlPresentWhenAnyInWindow ==
    "compute_awards" \in done =>
        ((\E k \in 1..Len(user_stats) :
             user_stats[k].avg_hour >= 180 \/ user_stats[k].avg_hour <= 60)
            => HasAward(awards, "night_owl"))

\* C18: no user receives both the Night Owl and the Early Bird award.
NightOwlAndEarlyBirdDiffer ==
    "compute_awards" \in done =>
        ~ /\ HasAward(awards, "night_owl")
          /\ HasAward(awards, "early_bird")
          /\ awards["night_owl"].user_email = awards["early_bird"].user_email


----------------------------------------------------------------------------
(* Fetching the runs of a year: fetch_runs_for_year page by page, over      *)
(* every server list of at most MaxRemoteRuns runs in pages of at most      *)
(* MaxPageSize runs                                                         *)

MaxRemoteRuns == 4

MaxPageSize == 2

\* the page of an index as list_pipeline_runs answers it
TotalPages(list, size) == (Len(list) + size - 1) \div size

PageItems(list, size, index) ==
    SubSeq(list, (index - 1) * size + 1,
           IF index * size < Len(list) THEN index * size ELSE Len(list))

\* a variant of the loop over page.items that passes over a run of an
\* earlier year instead of returning
RECURSIVE ScanPagePastEarlier(_, _, _)
ScanPagePastEarlier(items, y, acc) ==
    IF items = <<>> THEN [all_runs |-> acc, returned |-> FALSE]
    ELSE LET created == parse_datetime(Head(items).created)
         IN  IF created # NoDt /\ created.year = y
             THEN ScanPagePastEarlier(Tail(items), y, Append(acc, Head(items)))
             ELSE ScanPagePastEarlier(Tail(items), y, acc)

\* the loop over page.items: all_runs after it, and whether it returned
RECURSIVE ScanPage(_, _, _)
ScanPage(items, y, acc) ==
    IF items = <<>> THEN [all_runs |-> acc, returned |-> FALSE]
    ELSE LET created == parse_datetime(Head(items).created)
         IN  IF created # NoDt /\ created.year = y
             THEN ScanPage(Tail(items), y, Append(acc, Head(items)))
             ELSE IF created # NoDt /\ created.year < y
                  THEN [all_runs |-> acc, returned |-> TRUE]
                  ELSE ScanPage(Tail(items), y, acc)

\* page.index >= page.total_pages or not page.items
LastPage(list, size, index) ==
    index >= TotalPages(list, size) \/ PageItems(list, size, index) = <<>>

\* the whole of fetch_runs_for_year, from the page of the index on
RECURSIVE FetchFrom(_, _, _, _, _)
FetchFrom(list, y, size, index, acc) ==
    LET scan == ScanPage(PageItems(list, size, index), y, acc)
    IN  IF scan.returned \/ LastPage(list, size, index) THEN scan.all_runs
        ELSE FetchFrom(list, y, size, index + 1, scan.all_runs)

fetch_runs_for_year(list, y, size) == FetchFrom(list, y, size, 1, <<>>)

\* the first call of list_pipeline_runs, for page 1
FetchFirstPage ==
    /\ fetch_pc = "idle"
    /\ fetch_pc' = "paging"
    /\ page_index' = 1
    /\ requests' = 1
    /\ fetched_runs' = <<>>
    /\ UNCHANGED <<remote_runs, page_size>>
    /\ UNCHANGED <<rankingVars, loopVars>>
    /\ UNCHANGED <<year, runs, users, pipelines, artifacts, models, core_stats,
                   project_stats, time_analytics, user_stats, projects, awards,
                   top_pipelines, stacks, all_schedules, all_services, model,
                   version_count, done>>

\* one turn of the while loop: the runs of the page, then the return or the
\* call for the next page
WalkPage ==
    /\ fetch_pc = "paging"
    /\ LET scan == ScanPage(PageItems(remote_runs, page_size, page_index), year,
                            fetched_runs)
       IN  /\ fetched_runs' = scan.all_runs
           /\ IF scan.returned \/ LastPage(remote_runs, page_size, page_index)
              THEN /\ fetch_pc' = "returned"
                   /\ done' = done \cup {"fetch_runs_for_year"}
                   /\ UNCHANGED <<page_index, requests>>
              ELSE /\ page_index' = page_index + 1
                   /\ requests' = requests + 1
                   /\ UNCHANGED <<fetch_pc, done>>
    /\ UNCHANGED <<remote_runs, page_size>>
    /\ UNCHANGED <<rankingVars, loopVars>>
    /\ UNCHANGED <<year, runs, users, pipelines, artifacts, models, core_stats,
                   project_stats, time_analytics, user_stats, projects, awards,
                   top_pipelines, stacks, all_schedules, all_services, model,
                   version_count>>

\* the k-th run the server lists, told from the others by its id
RemoteRun(k, created) ==
    [id |-> k] @@ Run("completed", created, "u1", None, NoPipeline, "train")

CreatedValues ==
    {RawDatetime(Dt(TargetYear + 1, 1, 5, 0)),
     RawIso(Dt(TargetYear, 6, 1, 12), "Z"),
     RawDatetime(Dt(TargetYear - 1, 12, 31, 23)),
     RawBad,
     RawNone}

RemoteRunLists ==
    {[k \in 1..Len(c) |-> RemoteRun(k, c[k])] : c \in SeqsUpTo(CreatedValues, MaxRemoteRuns)}

InitFetch ==
    /\ FixedWorkspace
    /\ core_stats = NoCoreStats
    /\ project_stats = NoProjectStats
    /\ time_analytics = empty_time_analytics
    /\ awards = NoAwards
    /\ top_pipelines = <<>>
    /\ version_count = 0
    /\ NoRanking
    /\ NoLoop
    /\ remote_runs \in RemoteRunLists
    /\ page_size \in 1..MaxPageSize
    /\ page_index = 0
    /\ requests = 0
    /\ fetched_runs = <<>>
    /\ fetch_pc = "idle"
    /\ runs = <<>>
    /\ users = <<>>
    /\ user_stats = <<>>
    /\ projects = <<>>
    /\ model = NoModel
    /\ done = {}

NextFetch == FetchFirstPage \/ WalkPage

SpecFetch == InitFetch /\ [][NextFetch]_vars

YearOf(r) == parse_datetime(r.created).year

\* positions of the server's list that hold a parsed run of the target
\* year, and those that hold a parsed run of an earlier year
TargetAt == {k \in 1..Len(remote_runs) : Parses(remote_runs[k]) /\ YearOf(remote_runs[k]) = year}

EarlierAt == {k \in 1..Len(remote_runs) : Parses(remote_runs[k]) /\ YearOf(remote_runs[k]) < year}

FetchedIds == {fetched_runs[k].id : k \in 1..Len(fetched_runs)}

\* sort_by="desc:created": no parsed run is listed before a later one
SortedByCreatedDesc ==
    \A i \in 1..Len(remote_runs), j \in 1..Len(remote_runs) :
        (i < j /\ Parses(remote_runs[i]) /\ Parses(remote_runs[j])) =>
            DtKey(parse_datetime(remote_runs[i].created))
                >= DtKey(parse_datetime(remote_runs[j].created))

\* C19: fetch_runs_for_year returns only runs whose created value parses and
\* lies in the target year; it stops at the first run of an earlier year and
\* requests no page after that run's page; it passes over runs of later
\* years; otherwise it stops after the last page or an empty page; for
\* pages sorted by created, descending, it returns exactly the runs of the
\* target year.
FetchReturnsTargetYearRuns ==
    /\ \A k \in 1..Len(fetched_runs) :
          /\ Parses(fetched_runs[k])
          /\ YearOf(fetched_runs[k]) = year
          /\ \A l \in 1..Len(fetched_runs) : k < l => fetched_runs[k].id < fetched_runs[l].id
    /\ fetch_pc = "returned" =>
          /\ EarlierAt # {} =>
                LET first == CHOOSE k \in EarlierAt : \A l \in EarlierAt : k <= l
                IN  /\ requests = ((first - 1) \div page_size) + 1
                    /\ FetchedIds = {k \in TargetAt : k < first}
          /\ EarlierAt = {} =>
                /\ requests = (IF remote_runs = <<>> THEN 1
                               ELSE TotalPages(remote_runs, page_size))
                /\ FetchedIds = TargetAt
          /\ SortedByCreatedDesc => FetchedIds = TargetAt
          /\ fetched_runs = fetch_runs_for_year(remote_runs, year, page_size)

\* pages of one run: a run of a later year, one of the target year, one of
\* an earlier year and a second of the target year behind it; three pages
\* are requested and the first run of the target year is returned alone
FetchWitness ==
    /\ fetch_pc = "returned"
    /\ page_size = 1
    /\ Len(remote_runs) = 4
    /\ YearOf(remote_runs[1]) > year
    /\ 2 \in TargetAt
    /\ 3 \in EarlierAt
    /\ 4 \in TargetAt
    /\ requests = 3
    /\ FetchedIds = {2}


----------------------------------------------------------------------------
(* The loop of run_extraction over the projects, one project a step, over   *)
(* every workspace of at most MaxRemoteProjects projects; any call of the   *)
(* client may raise                                                        *)

MaxRemoteProjects == 3

\* the call of the client that raises while a project is extracted; None
\* when none does
Faults ==
    {None, "list_pipeline_runs", "list_pipelines", "list_artifacts", "list_models",
     "list_schedules", "list_services"}

\* extract_project_data returned None
NoData == [project_name |-> None]

\* a variant that returns the data of a project without runs in the year
extract_project_data_without_skip(project, y, size, fault) ==
    IF fault = "list_pipeline_runs" THEN [raised |-> fault, data |-> NoData]
    ELSE LET rs == fetch_runs_for_year(project.runs, y, size)
         IN  IF fault # None THEN [raised |-> fault, data |-> NoData]
             ELSE [raised |-> None,
                   data |-> [project_id |-> project.id, project_name |-> project.name,
                             display_name |-> project.display_name, runs |-> rs,
                             pipelines |-> project.pipelines,
                             artifacts |-> project.artifacts,
                             models |-> project.models,
                             schedules |-> project.schedules,
                             services |-> project.services]]

\* raised names the call whose exception left the function, None when it
\* returned; data is the returned dict, NoData for None
extract_project_data(project, y, size, fault) ==
    IF fault = "list_pipeline_runs" THEN [raised |-> fault, data |-> NoData]
    ELSE LET rs == fetch_runs_for_year(project.runs, y, size)
         IN  IF rs = <<>> THEN [raised |-> None, data |-> NoData]
             ELSE IF fault # None THEN [raised |-> fault, data |-> NoData]
             ELSE [raised |-> None,
                   data |-> [project_id |-> project.id, project_name |-> project.name,
                             display_name |-> project.display_name, runs |-> rs,
                             pipelines |-> project.pipelines,
                             artifacts |-> project.artifacts,
                             models |-> project.models,
                             schedules |-> project.schedules,
                             services |-> project.services]]

\* one turn of the loop over the projects: the try block and its handler
ProcessProject ==
    /\ project_index < Len(remote_projects)
    /\ \E fault \in Faults :
          LET project == remote_projects[project_index + 1]
              outcome == extract_project_data(project, year, page_size, fault)
              data == outcome.data
          IN  IF outcome.raised # None
              THEN /\ failed_projects' = Append(failed_projects,
                                                <<project.name, outcome.raised>>)
                   /\ UNCHANGED <<skipped_projects, project_data_list, runs, artifacts,
                                  models, all_schedules, all_services, pipelines>>
              ELSE IF data = NoData
              THEN /\ skipped_projects' = Append(skipped_projects, project.name)
                   /\ UNCHANGED <<failed_projects, project_data_list, runs, artifacts,
                                  models, all_schedules, all_services, pipelines>>
              ELSE /\ project_data_list' = Append(project_data_list, data)
                   /\ runs' = runs \o data.runs
                   /\ artifacts' = artifacts \o data.artifacts
                   /\ models' = models \o data.models
                   /\ all_schedules' = all_schedules \o data.schedules
                   /\ all_services' = all_services \o data.services
                   /\ pipelines' = pipelines \o data.pipelines
                   /\ UNCHANGED <<failed_projects, skipped_projects>>
    /\ project_index' = project_index + 1
    /\ UNCHANGED remote_projects
    /\ UNCHANGED <<rankingVars, fetchVars>>
    /\ UNCHANGED <<year, users, core_stats, project_stats, time_analytics, user_stats,
                   projects, awards, top_pipelines, stacks, model, version_count,
                   done>>

\* the return for a workspace without projects or without a processed one
ReturnWithoutProjects ==
    /\ project_index = Len(remote_projects)
    /\ project_data_list = <<>>
    /\ "run_extraction" \notin done
    /\ done' = done \cup {"run_extraction"}
    /\ UNCHANGED <<rankingVars, fetchVars, loopVars>>
    /\ UNCHANGED <<year, runs, users, pipelines, artifacts, models, core_stats,
                   project_stats, time_analytics, user_stats, projects, awards,
                   top_pipelines, stacks, all_schedules, all_services, model,
                   version_count>>

\* the core statistics of the collections the loop has filled
ComputeCoreStatsAfterLoop ==
    /\ project_index = Len(remote_projects)
    /\ project_data_list # <<>>
    /\ ComputeWorkspaceCoreStats

\* the created values of the runs of a project, as the server lists them
ProjectRunFamilies ==
    {<<>>,
     <<RawDatetime(Dt(TargetYear, 6, 1, 12))>>,
     <<RawDatetime(Dt(TargetYear - 1, 12, 31, 23))>>,
     <<RawDatetime(Dt(TargetYear + 1, 1, 5, 0)), RawIso(Dt(TargetYear, 6, 1, 12), "Z"),
       RawBad, RawDatetime(Dt(TargetYear - 1, 12, 31, 23))>>}

\* the j-th project of the server; every record carries its project's name
RemoteProject(j, created) ==
    LET name == ProjectNames[j]
    IN  [id |-> name, name |-> name, display_name |-> name,
         runs |-> [k \in 1..Len(created) |->
                      [id |-> 10 * j + k, project |-> name]
                          @@ Run("completed", created[k], "u1", None, NoPipeline, TopNames[j])],
         pipelines |-> <<Pipeline(TopIds[j], TopNames[j], name)>>,
         artifacts |-> <<[created |-> RawDatetime(Dt(TargetYear, 2, 3, 9)), project |-> name]>>,
         models |-> <<[project |-> name] @@ NoModel>>,
         schedules |-> <<[active |-> TRUE, project |-> name]>>,
         services |-> <<[state |-> "active", project |-> name]>>]

RemoteProjectLists ==
    {[j \in 1..Len(c) |-> RemoteProject(j, c[j])] :
        c \in SeqsUpTo(ProjectRunFamilies, MaxRemoteProjects)}

InitLoop ==
    /\ year = TargetYear
    /\ stacks = <<"default", "gcp">>
    /\ users = <<>>
    /\ runs = <<>>
    /\ pipelines = <<>>
    /\ artifacts = <<>>
    /\ models = <<>>
    /\ all_schedules = <<>>
    /\ all_services = <<>>
    /\ core_stats = NoCoreStats
    /\ project_stats = NoProjectStats
    /\ time_analytics = empty_time_analytics
    /\ awards = NoAwards
    /\ top_pipelines = <<>>
    /\ version_count = 0
    /\ NoRanking
    /\ remote_runs = <<>>
    /\ page_size = MaxPageSize
    /\ page_index = 0
    /\ requests = 0
    /\ fetched_runs = <<>>
    /\ fetch_pc = "idle"
    /\ remote_projects \in RemoteProjectLists
    /\ project_index = 0
    /\ project_data_list = <<>>
    /\ failed_projects = <<>>
    /\ skipped_projects = <<>>
    /\ user_stats = <<>>
    /\ projects = <<>>
    /\ model = NoModel
    /\ done = {}

NextLoop == ProcessProject \/ ReturnWithoutProjects \/ ComputeCoreStatsAfterLoop

SpecLoop == InitLoop /\ [][NextLoop]_vars

\* data[field] of the processed projects, one after the other
RECURSIVE Collected(_, _)
Collected(list, field) ==
    IF list = <<>> THEN <<>> ELSE Head(list)[field] \o Collected(Tail(list), field)

ProcessedNames == {project_data_list[k].project_name : k \in 1..Len(project_data_list)}

SkippedNames == {skipped_projects[k] : k \in 1..Len(skipped_projects)}

FailedNames == {failed_projects[k][1] : k \in 1..Len(failed_projects)}

FromProcessed(records) == \A k \in 1..Len(records) : records[k].project \in ProcessedNames

\* the records the server holds for a processed project are all collected
WhollyCollected(project) ==
    /\ \E k \in 1..Len(runs) : runs[k].project = project.name
    /\ \A f \in {"pipelines", "artifacts", "models", "schedules", "services"} :
          \A k \in 1..Len(project[f]) :
              \E l \in 1..Len(Collected(project_data_list, f)) :
                  Collected(project_data_list, f)[l] = project[f][k]

\* C20: the workspace-wide collections hold exactly the records of the
\* projects appended to project_data_list; a project whose extraction raised
\* or that has no run in the target year contributes no record; a failure
\* does not stop the loop; every handled project is in exactly one of
\* processed, skipped and failed; active_projects is the number of
\* processed projects.
ProjectsAllOrNothing ==
    /\ runs = Collected(project_data_list, "runs")
    /\ artifacts = Collected(project_data_list, "artifacts")
    /\ models = Collected(project_data_list, "models")
    /\ all_schedules = Collected(project_data_list, "schedules")
    /\ all_services = Collected(project_data_list, "services")
    /\ pipelines = Collected(project_data_list, "pipelines")
    /\ FromProcessed(runs) /\ FromProcessed(artifacts) /\ FromProcessed(models)
    /\ FromProcessed(all_schedules) /\ FromProcessed(all_services)
    /\ FromProcessed(pipelines)
    /\ \A j \in 1..project_index :
          /\ remote_projects[j].name \in ProcessedNames => WhollyCollected(remote_projects[j])
          /\ remote_projects[j].name \in SkippedNames =>
                \A k \in 1..Len(remote_projects[j].runs) :
                    remote_projects[j].runs[k].id \notin {runs[l].id : l \in 1..Len(runs)}
    /\ ProcessedNames \cup SkippedNames \cup FailedNames
          = {remote_projects[j].name : j \in 1..project_index}
    /\ Len(project_data_list) + Len(skipped_projects) + Len(failed_projects)
          = project_index
    /\ ProcessedNames \cap SkippedNames = {}
    /\ ProcessedNames \cap FailedNames = {}
    /\ SkippedNames \cap FailedNames = {}
    /\ project_index < Len(remote_projects) => ENABLED ProcessProject
    /\ "compute_workspace_core_stats" \in done =>
          /\ project_index = Len(remote_projects)
          /\ core_stats.active_projects = Cardinality(ProcessedNames)
          /\ core_stats.total_runs = Len(Collected(project_data_list, "runs"))

\* three projects: the first fails although it has runs of the year, the
\* second has none and is skipped, the third is processed
ProjectsAllOrNothingWitness ==
    /\ "compute_workspace_core_stats" \in done
    /\ Len(remote_projects) = 3
    /\ FailedNames = {remote_projects[1].name}
    /\ fetch_runs_for_year(remote_projects[1].runs, year, page_size) # <<>>
    /\ SkippedNames = {remote_projects[2].name}
    /\ ProcessedNames = {remote_projects[3].name}
    /\ core_stats.active_projects = 1
    /\ Len(runs) = 1
    /\ Len(artifacts) = 1

====
